---- MODULE Spec2Model ----
(***************************************************************************)
(* Membership accounting and reward attribution of keep-billings.          *)
(*                                                                         *)
(* Amounts are math/big values.  TLC integers are 32 bits wide, so a       *)
(* big.Int is kept as a little-endian sequence of limbs in base 2^15 and a *)
(* big.Float as sign, odd mantissa, binary exponent and precision, rounded *)
(* to nearest even at every operation exactly as math/big does.            *)
(***************************************************************************)
EXTENDS Integers, Sequences, FiniteSets, TLC

(***************************************************************************)
(* big.Int: naturals as little-endian limb sequences, no leading zero limb *)
(***************************************************************************)
Base == 2^15

Max(a, b) == IF a >= b THEN a ELSE b

Min(a, b) == IF a <= b THEN a ELSE b

RECURSIVE Pow2(_)
Pow2(k) == IF k = 0 THEN 1 ELSE 2 * Pow2(k - 1)

RECURSIVE NNorm(_)
NNorm(a) ==
    IF a = <<>> THEN a
    ELSE IF a[Len(a)] = 0 THEN NNorm(SubSeq(a, 1, Len(a) - 1))
    ELSE a

RECURSIVE NFromInt(_)
NFromInt(n) == IF n = 0 THEN <<>> ELSE <<n % Base>> \o NFromInt(n \div Base)

Limb(a, i) == IF i <= Len(a) THEN a[i] ELSE 0

RECURSIVE NAddFrom(_, _, _, _)
NAddFrom(a, b, i, c) ==
    IF i > Max(Len(a), Len(b))
    THEN (IF c = 0 THEN <<>> ELSE <<c>>)
    ELSE LET s == Limb(a, i) + Limb(b, i) + c
         IN  <<s % Base>> \o NAddFrom(a, b, i + 1, s \div Base)

NAdd(a, b) == NAddFrom(a, b, 1, 0)

RECURSIVE NSubFrom(_, _, _, _)
NSubFrom(a, b, i, c) ==
    IF i > Len(a) THEN <<>>
    ELSE LET s == a[i] - Limb(b, i) - c
         IN  IF s < 0 THEN <<s + Base>> \o NSubFrom(a, b, i + 1, 1)
             ELSE <<s>> \o NSubFrom(a, b, i + 1, 0)

\* a - b for a >= b
NSub(a, b) == NNorm(NSubFrom(a, b, 1, 0))

RECURSIVE NCmpFrom(_, _, _)
NCmpFrom(a, b, i) ==
    IF i = 0 THEN 0
    ELSE IF a[i] < b[i] THEN -1
    ELSE IF a[i] > b[i] THEN 1
    ELSE NCmpFrom(a, b, i - 1)

NCmp(a, b) ==
    IF Len(a) < Len(b) THEN -1
    ELSE IF Len(a) > Len(b) THEN 1
    ELSE NCmpFrom(a, b, Len(a))

RECURSIVE NMulSmallFrom(_, _, _, _)
NMulSmallFrom(a, m, i, c) ==
    IF i > Len(a) THEN (IF c = 0 THEN <<>> ELSE <<c>>)
    ELSE LET s == a[i] * m + c
         IN  <<s % Base>> \o NMulSmallFrom(a, m, i + 1, s \div Base)

\* a * m for 0 <= m < Base
NMulSmall(a, m) == IF m = 0 THEN <<>> ELSE NMulSmallFrom(a, m, 1, 0)

NShlLimbs(a, k) == IF a = <<>> THEN a ELSE [i \in 1..k |-> 0] \o a

NShrLimbs(a, k) == IF k >= Len(a) THEN <<>> ELSE SubSeq(a, k + 1, Len(a))

RECURSIVE NMul(_, _)
NMul(a, b) ==
    IF b = <<>> \/ a = <<>> THEN <<>>
    ELSE NAdd(NMulSmall(a, b[1]), NShlLimbs(NMul(a, Tail(b)), 1))

Reverse(a) == [i \in 1..Len(a) |-> a[Len(a) + 1 - i]]

\* limbs i..1 of a divided by d with r carried in; q most significant limb first
RECURSIVE NDivSmallFrom(_, _, _, _)
NDivSmallFrom(a, d, i, r) ==
    IF i = 0 THEN [q |-> <<>>, r |-> r]
    ELSE LET cur  == r * Base + a[i]
             rest == NDivSmallFrom(a, d, i - 1, cur % d)
         IN  [q |-> <<cur \div d>> \o rest.q, r |-> rest.r]

\* quotient and remainder of a by d, 0 < d <= Base
NDivSmall(a, d) ==
    LET res == NDivSmallFrom(a, d, Len(a), 0)
    IN  [q |-> NNorm(Reverse(res.q)), r |-> res.r]

NShl(a, k) == NShlLimbs(NMulSmall(a, Pow2(k % 15)), k \div 15)

NShr(a, k) == NDivSmall(NShrLimbs(a, k \div 15), Pow2(k % 15)).q

RECURSIVE BitLenInt(_)
BitLenInt(n) == IF n = 0 THEN 0 ELSE 1 + BitLenInt(n \div 2)

NBitLen(a) == IF a = <<>> THEN 0 ELSE 15 * (Len(a) - 1) + BitLenInt(a[Len(a)])

RECURSIVE TrailingZerosInt(_)
TrailingZerosInt(n) == IF n % 2 = 1 THEN 0 ELSE 1 + TrailingZerosInt(n \div 2)

RECURSIVE NTrailingZeros(_)
NTrailingZeros(a) ==
    IF a[1] = 0 THEN 15 + NTrailingZeros(Tail(a)) ELSE TrailingZerosInt(a[1])

\* the quotient digit: the estimate lowered until b * qhat <= r
RECURSIVE QFix(_, _, _)
QFix(b, r, qhat) ==
    IF NCmp(NMulSmall(b, qhat), r) > 0 THEN QFix(b, r, qhat - 1) ELSE qhat

\* schoolbook long division by a divisor whose top limb is >= Base / 2;
\* q most significant limb first
RECURSIVE NLongDivFrom(_, _, _, _)
NLongDivFrom(a, b, i, r) ==
    IF i = 0 THEN [q |-> <<>>, r |-> r]
    ELSE LET n    == Len(b)
             cur  == NNorm(<<a[i]>> \o r)
             est  == (Limb(cur, n + 1) * Base + Limb(cur, n)) \div b[n]
             qd   == QFix(b, cur, Min(est, Base - 1))
             rest == NLongDivFrom(a, b, i - 1, NSub(cur, NMulSmall(b, qd)))
         IN  [q |-> <<qd>> \o rest.q, r |-> rest.r]

\* quotient and remainder of a by b, b # 0
NDivMod(a, b) ==
    IF Len(b) = 1 THEN
        LET res == NDivSmall(a, b[1]) IN [q |-> res.q, r |-> NFromInt(res.r)]
    ELSE
        LET s   == Base \div (b[Len(b)] + 1)
            as  == NMulSmall(a, s)
            res == NLongDivFrom(as, NMulSmall(b, s), Len(as), <<>>)
        IN  [q |-> NNorm(Reverse(res.q)), r |-> NDivSmall(res.r, s).q]

RECURSIVE NPow10(_)
NPow10(k) ==
    IF k = 0 THEN <<1>>
    ELSE IF k >= 4 THEN NMulSmall(NPow10(k - 4), 10000)
    ELSE NMulSmall(NPow10(k - 1), 10)

(***************************************************************************)
(* big.Float: value (-1)^neg * mant * 2^exp, mant odd (or <<>> for zero),  *)
(* prec the mantissa width in bits; every operation rounds its exact       *)
(* result to prec bits, ties to even (big.ToNearestEven, the default).     *)
(***************************************************************************)
FZero(prec, neg) == [neg |-> neg, mant |-> <<>>, exp |-> 0, prec |-> prec]

FCanon(neg, m, e, prec) ==
    IF m = <<>> THEN FZero(prec, neg)
    ELSE LET tz == NTrailingZeros(m)
         IN  [neg |-> neg, mant |-> NShr(m, tz), exp |-> e + tz, prec |-> prec]

\* m * 2^e (plus a non-zero fraction of the last bit when sticky) rounded to
\* prec bits: up when the dropped bits exceed half of the last kept bit, and
\* on a tie (no sticky fraction) to the even mantissa
FRound(neg, m, e, sticky, prec) ==
    IF NBitLen(m) <= prec THEN FCanon(neg, m, e, prec)
    ELSE LET sh  == NBitLen(m) - prec
             q   == NShr(m, sh)
             odd == q[1] % 2 = 1
             c   == NCmp(NSub(m, NShl(q, sh)), NShl(<<1>>, sh - 1))
         IN  IF (IF odd THEN c >= 0 ELSE c > 0 \/ (c = 0 /\ sticky))
             THEN FCanon(neg, NAdd(q, <<1>>), e + sh, prec)
             ELSE FCanon(neg, q, e + sh, prec)

\* the exact sum of two signed values, not yet rounded
ExactSum(xn, xm, xe, yn, ym, ye) ==
    IF xm = <<>> /\ ym = <<>> THEN [neg |-> xn /\ yn, mant |-> <<>>, exp |-> 0]
    ELSE IF xm = <<>> THEN [neg |-> yn, mant |-> ym, exp |-> ye]
    ELSE IF ym = <<>> THEN [neg |-> xn, mant |-> xm, exp |-> xe]
    ELSE LET e == Min(xe, ye)
             a == NShl(xm, xe - e)
             b == NShl(ym, ye - e)
             c == NCmp(a, b)
         IN  IF xn = yn THEN [neg |-> xn, mant |-> NAdd(a, b), exp |-> e]
             ELSE IF c = 0 THEN [neg |-> FALSE, mant |-> <<>>, exp |-> 0]
             ELSE IF c > 0 THEN [neg |-> xn, mant |-> NSub(a, b), exp |-> e]
             ELSE [neg |-> yn, mant |-> NSub(b, a), exp |-> e]

\* new(big.Float).Add(x, y)
FAdd(x, y) ==
    LET s == ExactSum(x.neg, x.mant, x.exp, y.neg, y.mant, y.exp)
    IN  FRound(s.neg, s.mant, s.exp, FALSE, Max(x.prec, y.prec))

\* new(big.Float).Sub(x, y)
FSub(x, y) ==
    LET s == ExactSum(x.neg, x.mant, x.exp, ~y.neg, y.mant, y.exp)
    IN  FRound(s.neg, s.mant, s.exp, FALSE, Max(x.prec, y.prec))

\* new(big.Float).Mul(x, y)
FMul(x, y) ==
    IF x.mant = <<>> \/ y.mant = <<>> THEN FZero(Max(x.prec, y.prec), x.neg # y.neg)
    ELSE FRound(x.neg # y.neg, NMul(x.mant, y.mant), x.exp + y.exp, FALSE,
                Max(x.prec, y.prec))

\* new(big.Float).Quo(x, y), y # 0
FQuo(x, y) ==
    IF x.mant = <<>> THEN FZero(Max(x.prec, y.prec), x.neg # y.neg)
    ELSE LET prec == Max(x.prec, y.prec)
             k    == Max(0, prec + 2 + NBitLen(y.mant) - NBitLen(x.mant))
             d    == NDivMod(NShl(x.mant, k), y.mant)
         IN  FRound(x.neg # y.neg, d.q, x.exp - y.exp - k, d.r # <<>>, prec)

\* x.Sign()
FSign(x) == IF x.mant = <<>> THEN 0 ELSE IF x.neg THEN -1 ELSE 1

\* x.Cmp(y)
FCmp(x, y) ==
    LET s == ExactSum(x.neg, x.mant, x.exp, ~y.neg, y.mant, y.exp)
    IN  IF s.mant = <<>> THEN 0 ELSE IF s.neg THEN -1 ELSE 1

\* big.NewFloat(float64(n)) for an integer n of at most 31 bits: exact, 53 bits
NewFloat(n) ==
    FCanon(n < 0, NFromInt(IF n < 0 THEN -n ELSE n), 0, 53)

\* new(big.Float).SetString(wei.String()): the decimal integer at 64 bits
FSetString(wei) == FRound(FALSE, wei, 0, FALSE, 64)

\* chain.WeiToEth
WeiToEth(wei) ==
    FQuo(FSetString(wei), FCanon(FALSE, NPow10(18), 0, 53))

(***************************************************************************)
(* SplitCalculator                                                         *)
(***************************************************************************)
\* a faulty variant: the provider's coin share is taken from the customer's whole coin
\* share instead of from the customer's part of the accumulated rewards
calculateFinalBeaconRewards_ProviderFromWholeShare(customerSharePercentage, beneficiaryEthBalance, beneficiaryKeepBalance, accumulatedEthRewards) ==
    LET customerKeepRewardShare ==
            FQuo(FMul(beneficiaryKeepBalance, customerSharePercentage), NewFloat(100))
        customerEthRewardShare ==
            FAdd(FQuo(FMul(accumulatedEthRewards, customerSharePercentage), NewFloat(100)),
                 beneficiaryEthBalance)
    IN  [customerEthRewardShare  |-> customerEthRewardShare,
         providerEthRewardShare  |-> FSub(accumulatedEthRewards, customerEthRewardShare),
         customerKeepRewardShare |-> customerKeepRewardShare,
         providerKeepRewardShare |-> FSub(beneficiaryKeepBalance, customerKeepRewardShare)]

\* a faulty variant: the percentage is divided by 100 as an integer first, so that every
\* percentage below 100 counts as 0
calculateFinalBeaconRewards_TruncatedPercentage(customerSharePercentage, beneficiaryEthBalance, beneficiaryKeepBalance, accumulatedEthRewards) ==
    LET whole == IF FCmp(customerSharePercentage, NewFloat(100)) < 0
                 THEN NewFloat(0) ELSE NewFloat(1)
        customerKeepRewardShare == FMul(beneficiaryKeepBalance, whole)
        customerAccumulatedEthRewardShare == FMul(accumulatedEthRewards, whole)
    IN  [customerEthRewardShare  |->
             FAdd(customerAccumulatedEthRewardShare, beneficiaryEthBalance),
         providerEthRewardShare  |->
             FSub(accumulatedEthRewards, customerAccumulatedEthRewardShare),
         customerKeepRewardShare |-> customerKeepRewardShare,
         providerKeepRewardShare |-> FSub(beneficiaryKeepBalance, customerKeepRewardShare)]

\* a faulty variant: the provider's token share subtracts the customer's part of the
\* accumulated coin rewards instead of the customer's token share
calculateFinalBeaconRewards_KeepMinusEthShare(customerSharePercentage, beneficiaryEthBalance, beneficiaryKeepBalance, accumulatedEthRewards) ==
    LET customerKeepRewardShare ==
            FQuo(FMul(beneficiaryKeepBalance, customerSharePercentage), NewFloat(100))
        customerAccumulatedEthRewardShare ==
            FQuo(FMul(accumulatedEthRewards, customerSharePercentage), NewFloat(100))
    IN  [customerEthRewardShare  |->
             FAdd(customerAccumulatedEthRewardShare, beneficiaryEthBalance),
         providerEthRewardShare  |->
             FSub(accumulatedEthRewards, customerAccumulatedEthRewardShare),
         customerKeepRewardShare |-> customerKeepRewardShare,
         providerKeepRewardShare |->
             FSub(beneficiaryKeepBalance, customerAccumulatedEthRewardShare)]

\* a faulty variant: the percentage is applied to accumulated rewards plus balance, as
\* the variant with operational costs does with its net rewards
calculateFinalBeaconRewards_PercentageOfBalance(customerSharePercentage, beneficiaryEthBalance, beneficiaryKeepBalance, accumulatedEthRewards) ==
    LET customerKeepRewardShare ==
            FQuo(FMul(beneficiaryKeepBalance, customerSharePercentage), NewFloat(100))
        ethRewards == FAdd(accumulatedEthRewards, beneficiaryEthBalance)
        customerEthRewardShare ==
            FQuo(FMul(ethRewards, customerSharePercentage), NewFloat(100))
    IN  [customerEthRewardShare  |-> customerEthRewardShare,
         providerEthRewardShare  |-> FSub(ethRewards, customerEthRewardShare),
         customerKeepRewardShare |-> customerKeepRewardShare,
         providerKeepRewardShare |-> FSub(beneficiaryKeepBalance, customerKeepRewardShare)]

\* a faulty variant: the provider is given the percentage too, not the remainder
calculateFinalBeaconRewards_ProviderGetsPercentage(customerSharePercentage, beneficiaryEthBalance, beneficiaryKeepBalance, accumulatedEthRewards) ==
    LET customerKeepRewardShare ==
            FQuo(FMul(beneficiaryKeepBalance, customerSharePercentage), NewFloat(100))
        customerAccumulatedEthRewardShare ==
            FQuo(FMul(accumulatedEthRewards, customerSharePercentage), NewFloat(100))
    IN  [customerEthRewardShare  |->
             FAdd(customerAccumulatedEthRewardShare, beneficiaryEthBalance),
         providerEthRewardShare  |-> customerAccumulatedEthRewardShare,
         customerKeepRewardShare |-> customerKeepRewardShare,
         providerKeepRewardShare |-> customerKeepRewardShare]

\* calculateFinalBeaconRewards, the variant without operational costs
calculateFinalBeaconRewards(customerSharePercentage, beneficiaryEthBalance, beneficiaryKeepBalance, accumulatedEthRewards) ==
    LET customerKeepRewardShare ==
            FQuo(FMul(beneficiaryKeepBalance, customerSharePercentage), NewFloat(100))
        providerKeepRewardShare ==
            FSub(beneficiaryKeepBalance, customerKeepRewardShare)
        customerAccumulatedEthRewardShare ==
            FQuo(FMul(accumulatedEthRewards, customerSharePercentage), NewFloat(100))
    IN  [customerEthRewardShare  |->
             FAdd(customerAccumulatedEthRewardShare, beneficiaryEthBalance),
         providerEthRewardShare  |->
             FSub(accumulatedEthRewards, customerAccumulatedEthRewardShare),
         customerKeepRewardShare |-> customerKeepRewardShare,
         providerKeepRewardShare |-> providerKeepRewardShare]

\* a faulty variant: with negative operational costs the token balance is
\* still split
calculateFinalBeaconRewardsWithCosts_KeepSharesOnError(initialOperatorEthBalance, customerSharePercentage, operatorEthBalance, beneficiaryEthBalance, beneficiaryKeepBalance, accumulatedEthRewards) ==
    LET operationalCosts == FSub(initialOperatorEthBalance, operatorEthBalance)
        customerKeepRewardShare ==
            FQuo(FMul(beneficiaryKeepBalance, customerSharePercentage), NewFloat(100))
        providerKeepRewardShare ==
            FSub(beneficiaryKeepBalance, customerKeepRewardShare)
        ethNetRewards ==
            FSub(FAdd(accumulatedEthRewards, beneficiaryEthBalance), operationalCosts)
        customerEthRewardShare ==
            FQuo(FMul(ethNetRewards, customerSharePercentage), NewFloat(100))
    IN  IF FCmp(operationalCosts, NewFloat(0)) = -1 THEN
            [operationalCosts        |-> NewFloat(0),
             customerEthRewardShare  |-> NewFloat(0),
             providerEthRewardShare  |-> NewFloat(0),
             customerKeepRewardShare |-> customerKeepRewardShare,
             providerKeepRewardShare |-> providerKeepRewardShare,
             anomaly                 |-> "error"]
        ELSE IF FSign(ethNetRewards) = -1 THEN
            [operationalCosts        |-> NewFloat(0),
             customerEthRewardShare  |-> NewFloat(0),
             providerEthRewardShare  |-> NewFloat(0),
             customerKeepRewardShare |-> customerKeepRewardShare,
             providerKeepRewardShare |-> providerKeepRewardShare,
             anomaly                 |-> "warning"]
        ELSE
            [operationalCosts        |-> operationalCosts,
             customerEthRewardShare  |-> customerEthRewardShare,
             providerEthRewardShare  |-> FSub(ethNetRewards, customerEthRewardShare),
             customerKeepRewardShare |-> customerKeepRewardShare,
             providerKeepRewardShare |-> providerKeepRewardShare,
             anomaly                 |-> "none"]

\* a faulty variant: with negative net rewards the operational costs are
\* reported as computed
calculateFinalBeaconRewardsWithCosts_CostsKeptOnWarning(initialOperatorEthBalance, customerSharePercentage, operatorEthBalance, beneficiaryEthBalance, beneficiaryKeepBalance, accumulatedEthRewards) ==
    LET operationalCosts == FSub(initialOperatorEthBalance, operatorEthBalance)
        customerKeepRewardShare ==
            FQuo(FMul(beneficiaryKeepBalance, customerSharePercentage), NewFloat(100))
        providerKeepRewardShare ==
            FSub(beneficiaryKeepBalance, customerKeepRewardShare)
        ethNetRewards ==
            FSub(FAdd(accumulatedEthRewards, beneficiaryEthBalance), operationalCosts)
        customerEthRewardShare ==
            FQuo(FMul(ethNetRewards, customerSharePercentage), NewFloat(100))
    IN  IF FCmp(operationalCosts, NewFloat(0)) = -1 THEN
            [operationalCosts        |-> NewFloat(0),
             customerEthRewardShare  |-> NewFloat(0),
             providerEthRewardShare  |-> NewFloat(0),
             customerKeepRewardShare |-> NewFloat(0),
             providerKeepRewardShare |-> NewFloat(0),
             anomaly                 |-> "error"]
        ELSE IF FSign(ethNetRewards) = -1 THEN
            [operationalCosts        |-> operationalCosts,
             customerEthRewardShare  |-> NewFloat(0),
             providerEthRewardShare  |-> NewFloat(0),
             customerKeepRewardShare |-> customerKeepRewardShare,
             providerKeepRewardShare |-> providerKeepRewardShare,
             anomaly                 |-> "warning"]
        ELSE
            [operationalCosts        |-> operationalCosts,
             customerEthRewardShare  |-> customerEthRewardShare,
             providerEthRewardShare  |-> FSub(ethNetRewards, customerEthRewardShare),
             customerKeepRewardShare |-> customerKeepRewardShare,
             providerKeepRewardShare |-> providerKeepRewardShare,
             anomaly                 |-> "none"]

\* a faulty variant: the operational costs are not taken off the amount split
calculateFinalBeaconRewardsWithCosts_SplitWithoutCosts(initialOperatorEthBalance, customerSharePercentage, operatorEthBalance, beneficiaryEthBalance, beneficiaryKeepBalance, accumulatedEthRewards) ==
    LET operationalCosts == FSub(initialOperatorEthBalance, operatorEthBalance)
        customerKeepRewardShare ==
            FQuo(FMul(beneficiaryKeepBalance, customerSharePercentage), NewFloat(100))
        providerKeepRewardShare ==
            FSub(beneficiaryKeepBalance, customerKeepRewardShare)
        ethNetRewards ==
            FAdd(accumulatedEthRewards, beneficiaryEthBalance)
        customerEthRewardShare ==
            FQuo(FMul(ethNetRewards, customerSharePercentage), NewFloat(100))
    IN  IF FCmp(operationalCosts, NewFloat(0)) = -1 THEN
            [operationalCosts        |-> NewFloat(0),
             customerEthRewardShare  |-> NewFloat(0),
             providerEthRewardShare  |-> NewFloat(0),
             customerKeepRewardShare |-> NewFloat(0),
             providerKeepRewardShare |-> NewFloat(0),
             anomaly                 |-> "error"]
        ELSE IF FSign(ethNetRewards) = -1 THEN
            [operationalCosts        |-> NewFloat(0),
             customerEthRewardShare  |-> NewFloat(0),
             providerEthRewardShare  |-> NewFloat(0),
             customerKeepRewardShare |-> customerKeepRewardShare,
             providerKeepRewardShare |-> providerKeepRewardShare,
             anomaly                 |-> "warning"]
        ELSE
            [operationalCosts        |-> operationalCosts,
             customerEthRewardShare  |-> customerEthRewardShare,
             providerEthRewardShare  |-> FSub(ethNetRewards, customerEthRewardShare),
             customerKeepRewardShare |-> customerKeepRewardShare,
             providerKeepRewardShare |-> providerKeepRewardShare,
             anomaly                 |-> "none"]

\* calculateFinalBeaconRewards, the variant with operational costs; anomaly
\* is what the function logs: "error", "warning" or "none"
calculateFinalBeaconRewardsWithCosts(initialOperatorEthBalance, customerSharePercentage, operatorEthBalance, beneficiaryEthBalance, beneficiaryKeepBalance, accumulatedEthRewards) ==
    LET operationalCosts == FSub(initialOperatorEthBalance, operatorEthBalance)
        customerKeepRewardShare ==
            FQuo(FMul(beneficiaryKeepBalance, customerSharePercentage), NewFloat(100))
        providerKeepRewardShare ==
            FSub(beneficiaryKeepBalance, customerKeepRewardShare)
        ethNetRewards ==
            FSub(FAdd(accumulatedEthRewards, beneficiaryEthBalance), operationalCosts)
        customerEthRewardShare ==
            FQuo(FMul(ethNetRewards, customerSharePercentage), NewFloat(100))
    IN  IF FCmp(operationalCosts, NewFloat(0)) = -1 THEN
            [operationalCosts        |-> NewFloat(0),
             customerEthRewardShare  |-> NewFloat(0),
             providerEthRewardShare  |-> NewFloat(0),
             customerKeepRewardShare |-> NewFloat(0),
             providerKeepRewardShare |-> NewFloat(0),
             anomaly                 |-> "error"]
        ELSE IF FSign(ethNetRewards) = -1 THEN
            [operationalCosts        |-> NewFloat(0),
             customerEthRewardShare  |-> NewFloat(0),
             providerEthRewardShare  |-> NewFloat(0),
             customerKeepRewardShare |-> customerKeepRewardShare,
             providerKeepRewardShare |-> providerKeepRewardShare,
             anomaly                 |-> "warning"]
        ELSE
            [operationalCosts        |-> operationalCosts,
             customerEthRewardShare  |-> customerEthRewardShare,
             providerEthRewardShare  |-> FSub(ethNetRewards, customerEthRewardShare),
             customerKeepRewardShare |-> customerKeepRewardShare,
             providerKeepRewardShare |-> providerKeepRewardShare,
             anomaly                 |-> "none"]

(***************************************************************************)
(* MembershipAccountant and RewardAccumulator.  An address is a string,    *)
(* kept as the sequence of its characters; a public key is a sequence of   *)
(* bytes; the summary's texts are strings.                                 *)
(***************************************************************************)
Nil == <<>>

\* strings.ToLower, character by character: only letters change
ToLowerChar(c) ==
    CASE c = "A" -> "a" [] c = "B" -> "b" [] c = "C" -> "c"
      [] c = "D" -> "d" [] c = "E" -> "e" [] c = "F" -> "f"
      [] c = "X" -> "x" [] OTHER -> c

ToLower(s) == [i \in 1..Len(s) |-> ToLowerChar(s[i])]

\* common.HexToAddress: the address a hex string denotes, the same for every
\* letter case of its digits
HexToAddress(s) == ToLower(s)

\* EthereumClient.AreRewardsWithdrawn: the contract's answer for the
\* operator's address and the group index, or the call's error
AreRewardsWithdrawn(ds, operator, groupIndex) ==
    IF <<"AreRewardsWithdrawn", groupIndex>> \in ds.failing
    THEN [value |-> FALSE, err |-> <<"AreRewardsWithdrawn", groupIndex>>]
    ELSE [value |-> <<HexToAddress(operator), groupIndex>> \in ds.withdrawn,
          err   |-> Nil]

\* EthereumClient.GroupMemberRewards: the reward of one member of the group
\* with this public key, in wei, or the call's error
GroupMemberRewards(ds, groupPublicKey) ==
    IF <<"GroupMemberRewards", groupPublicKey>> \in ds.failing
    THEN [value |-> <<>>, err |-> <<"GroupMemberRewards", groupPublicKey>>]
    ELSE [value |-> ds.memberRewards[groupPublicKey], err |-> Nil]

\* a faulty variant: addresses are compared as written
getGroupMemberIndexes_CaseSensitive(operatorAddress, _group) ==
    {memberIndex \in DOMAIN _group.members :
        operatorAddress = _group.members[memberIndex]}

\* a faulty variant: an address is counted once per group, at its first slot
getGroupMemberIndexes_DistinctAddresses(operatorAddress, _group) ==
    {memberIndex \in DOMAIN _group.members :
        /\ ToLower(operatorAddress) = ToLower(_group.members[memberIndex])
        /\ \A other \in DOMAIN _group.members :
               ToLower(operatorAddress) = ToLower(_group.members[other])
                   => memberIndex <= other}

\* getGroupMemberIndexes: the slots of the group held by the operator.  The
\* code appends them in the map's iteration order, which is unspecified; its
\* callers take the length or sort, so the slots are kept as a set.
getGroupMemberIndexes(operatorAddress, _group) ==
    {memberIndex \in DOMAIN _group.members :
        ToLower(operatorAddress) = ToLower(_group.members[memberIndex])}

\* sort.Ints
RECURSIVE SortInts(_)
SortInts(ints) ==
    IF ints = {} THEN <<>>
    ELSE LET least == CHOOSE i \in ints : \A j \in ints : i <= j
         IN  <<least>> \o SortInts(ints \ {least})

\* fmt.Sprint of the sorted slots, "[1 2 3]", split at the blanks, joined
\* with ", " and trimmed of the brackets: "1, 2, 3", and "" for no slot
RECURSIVE JoinInts(_)
JoinInts(sorted) ==
    IF sorted = <<>> THEN ""
    ELSE IF Len(sorted) = 1 THEN ToString(sorted[1])
    ELSE ToString(sorted[1]) \o ", " \o JoinInts(Tail(sorted))

HexDigit(n) ==
    <<"0", "1", "2", "3", "4", "5", "6", "7",
      "8", "9", "a", "b", "c", "d", "e", "f">>[n + 1]

\* hex.EncodeToString
RECURSIVE EncodeToString(_)
EncodeToString(bytes) ==
    IF bytes = <<>> THEN ""
    ELSE HexDigit(bytes[1] \div 16) \o HexDigit(bytes[1] % 16)
             \o EncodeToString(Tail(bytes))

\* "0x" + hex.EncodeToString(publicKey)[:32] + "...": the first 32 hex
\* digits are those of the first 16 bytes
SummaryKey(publicKey) == "0x" \o EncodeToString(SubSeq(publicKey, 1, 16)) \o "..."

\* activeGroupsSummary[key] = text
Put(summary, key, text) ==
    [k \in DOMAIN summary \cup {key} |-> IF k = key THEN text ELSE summary[k]]

\* a faulty variant: every slot of the operator is counted as active
RECURSIVE summarizeGroupsInfoFrom_AllActive(_, _, _, _)
summarizeGroupsInfoFrom_AllActive(groups, operator, i, sofar) ==
    IF i > Len(groups) THEN sofar
    ELSE summarizeGroupsInfoFrom_AllActive(groups, operator, i + 1,
             [sofar EXCEPT !.activeGroupsMemberCount =
                               @ + Cardinality(getGroupMemberIndexes(operator, groups[i]))])

RECURSIVE summarizeGroupsInfoFrom(_, _, _, _)
summarizeGroupsInfoFrom(groups, operator, i, sofar) ==
    IF i > Len(groups) THEN sofar
    ELSE LET operatorMembers == getGroupMemberIndexes(operator, groups[i])
             membersString   == JoinInts(SortInts(operatorMembers))
         IN  IF ~groups[i].isActive
             THEN summarizeGroupsInfoFrom(groups, operator, i + 1,
                      [sofar EXCEPT !.inactiveGroupsMemberCount =
                                        @ + Cardinality(operatorMembers)])
             ELSE summarizeGroupsInfoFrom(groups, operator, i + 1,
                      [sofar EXCEPT
                          !.activeGroupsMemberCount = @ + Cardinality(operatorMembers),
                          !.activeGroupsSummary =
                              Put(@, SummaryKey(groups[i].publicKey),
                                  IF Len(membersString) = 0 THEN "-"
                                  ELSE membersString)])

\* summarizeGroupsInfo, over the generator's groups
summarizeGroupsInfo(groups, operator) ==
    summarizeGroupsInfoFrom(groups, operator, 1,
        [activeGroupsMemberCount   |-> 0,
         inactiveGroupsMemberCount |-> 0,
         activeGroupsSummary       |-> <<>>])

\* a faulty variant: the withdrawal status is not asked for
RECURSIVE accumulatedRewardsWeiFrom_IgnoringWithdrawal(_, _, _, _, _)
accumulatedRewardsWeiFrom_IgnoringWithdrawal(groups, ds, operator, i, accumulatedRewardsWei) ==
    IF i > Len(groups) THEN [value |-> accumulatedRewardsWei, err |-> Nil]
    ELSE LET memberRewards == GroupMemberRewards(ds, groups[i].publicKey)
         IN  IF memberRewards.err # Nil
                 THEN [value |-> <<>>, err |-> memberRewards.err]
             ELSE accumulatedRewardsWeiFrom_IgnoringWithdrawal(groups, ds, operator, i + 1,
                      NAdd(accumulatedRewardsWei,
                           NMul(memberRewards.value,
                                NFromInt(Cardinality(
                                    getGroupMemberIndexes(operator, groups[i]))))))

\* the loop of calculateAccumulatedRewards, from the i-th group on: the sum
\* in wei, or the first error of the data source
RECURSIVE accumulatedRewardsWeiFrom(_, _, _, _, _)
accumulatedRewardsWeiFrom(groups, ds, operator, i, accumulatedRewardsWei) ==
    IF i > Len(groups) THEN [value |-> accumulatedRewardsWei, err |-> Nil]
    ELSE LET rewardsWithdrawn == AreRewardsWithdrawn(ds, operator, groups[i].index)
             memberRewards    == GroupMemberRewards(ds, groups[i].publicKey)
             operatorMembers  == getGroupMemberIndexes(operator, groups[i])
             groupRewardsWei  ==
                 NMul(memberRewards.value, NFromInt(Cardinality(operatorMembers)))
         IN  IF rewardsWithdrawn.err # Nil
                 THEN [value |-> <<>>, err |-> rewardsWithdrawn.err]
             ELSE IF rewardsWithdrawn.value
                 THEN accumulatedRewardsWeiFrom(groups, ds, operator, i + 1,
                                                accumulatedRewardsWei)
             ELSE IF memberRewards.err # Nil
                 THEN [value |-> <<>>, err |-> memberRewards.err]
             ELSE accumulatedRewardsWeiFrom(groups, ds, operator, i + 1,
                      NAdd(accumulatedRewardsWei, groupRewardsWei))

\* a faulty variant: each group's rewards are converted to coins before they
\* are added
RECURSIVE ConvertedPerGroupFrom(_, _, _, _)
ConvertedPerGroupFrom(groups, ds, operator, i) ==
    IF i > Len(groups) THEN WeiToEth(<<>>)
    ELSE IF AreRewardsWithdrawn(ds, operator, groups[i].index).value
        THEN ConvertedPerGroupFrom(groups, ds, operator, i + 1)
    ELSE FAdd(WeiToEth(NMul(GroupMemberRewards(ds, groups[i].publicKey).value,
                            NFromInt(Cardinality(
                                getGroupMemberIndexes(operator, groups[i]))))),
              ConvertedPerGroupFrom(groups, ds, operator, i + 1))

calculateAccumulatedRewards_ConvertedPerGroup(groups, ds, operator) ==
    LET wei == accumulatedRewardsWeiFrom(groups, ds, operator, 1, <<>>)
    IN  IF wei.err # Nil THEN [value |-> Nil, err |-> wei.err]
        ELSE [value |-> ConvertedPerGroupFrom(groups, ds, operator, 1), err |-> Nil]

\* a faulty variant: the error of the data source is returned inside a new
\* error
calculateAccumulatedRewards_WrappedError(groups, ds, operator) ==
    LET wei == accumulatedRewardsWeiFrom(groups, ds, operator, 1, <<>>)
    IN  IF wei.err # Nil
        THEN [value |-> Nil,
              err   |-> <<"fmt.Errorf", "could not calculate rewards: [%v]", wei.err>>]
        ELSE [value |-> WeiToEth(wei.value), err |-> Nil]

\* calculateAccumulatedRewards: the sum converted once, at the end
calculateAccumulatedRewards(groups, ds, operator) ==
    LET wei == accumulatedRewardsWeiFrom(groups, ds, operator, 1, <<>>)
    IN  IF wei.err # Nil THEN [value |-> Nil, err |-> wei.err]
        ELSE [value |-> WeiToEth(wei.value), err |-> Nil]

(***************************************************************************)
(* CohortIndexBuilder.  A call of the data source is named by a tuple, its *)
(* method and arguments; the data source fails the calls in ds.failing,    *)
(* and the error of a failed call is the call's tuple.  The functions that *)
(* query the data source also return calls, the calls they made in order.  *)
(***************************************************************************)
\* fmt.Errorf(format, ..., err): a new error whose text holds the text of
\* err; it is another value than err
Errorf(format, err) == <<"fmt.Errorf", format, err>>

\* BeaconDataSource.AllGroupsCount
AllGroupsCount(ds) ==
    IF <<"AllGroupsCount">> \in ds.failing
    THEN [value |-> 0, err |-> <<"AllGroupsCount">>]
    ELSE [value |-> ds.allGroupsCount, err |-> Nil]

\* EthereumClient.FirstActiveGroupIndex
FirstActiveGroupIndex(ds) ==
    IF <<"FirstActiveGroupIndex">> \in ds.failing
    THEN [value |-> 0, err |-> <<"FirstActiveGroupIndex">>]
    ELSE [value |-> ds.firstActiveGroupIndex, err |-> Nil]

\* EthereumClient.GroupPublicKey
GroupPublicKey(ds, groupIndex) ==
    IF <<"GroupPublicKey", groupIndex>> \in ds.failing
    THEN [value |-> Nil, err |-> <<"GroupPublicKey", groupIndex>>]
    ELSE [value |-> ds.groupPublicKeys[groupIndex], err |-> Nil]

\* a faulty variant: the slots are numbered from 0
GroupMembersOf_FromZero(ds, groupPublicKey) ==
    IF <<"GroupMembers", groupPublicKey>> \in ds.failing
    THEN [value |-> Nil, err |-> <<"GroupMembers", groupPublicKey>>]
    ELSE [value |-> [i \in 0..(Len(ds.groupMembers[groupPublicKey]) - 1) |->
                        ds.groupMembers[groupPublicKey][i + 1]],
          err   |-> Nil]

\* EthereumClient.GroupMembers: slot i + 1 for the i-th address the contract
\* returns for the group with this public key
GroupMembersOf(ds, groupPublicKey) ==
    IF <<"GroupMembers", groupPublicKey>> \in ds.failing
    THEN [value |-> Nil, err |-> <<"GroupMembers", groupPublicKey>>]
    ELSE [value |-> [i \in 1..Len(ds.groupMembers[groupPublicKey]) |->
                        ds.groupMembers[groupPublicKey][i]],
          err   |-> Nil]

\* a faulty variant: a group that could not be fetched is left out and the
\* groups fetched so far are returned with the error
RECURSIVE fetchGroupsDataFrom_KeepsPartialList(_, _, _, _, _, _)
fetchGroupsDataFrom_KeepsPartialList(ds, numberOfAllGroups, firstActiveGroupIndex, index, groups, calls) ==
    IF ~(index < numberOfAllGroups) THEN [value |-> groups, err |-> Nil, calls |-> calls]
    ELSE LET publicKey == GroupPublicKey(ds, index)
             members   == GroupMembersOf(ds, publicKey.value)
         IN  IF publicKey.err # Nil
                 THEN [value |-> groups,
                       err   |-> Errorf("could not get public key of group with index ["
                                            \o ToString(index) \o "]: [%v]", publicKey.err),
                       calls |-> calls \o <<<<"GroupPublicKey", index>>>>]
             ELSE IF members.err # Nil
                 THEN [value |-> groups,
                       err   |-> Errorf("could not get members of group with index ["
                                            \o ToString(index) \o "]: [%v]", members.err),
                       calls |-> calls \o <<<<"GroupPublicKey", index>>,
                                            <<"GroupMembers", publicKey.value>>>>]
             ELSE fetchGroupsDataFrom_KeepsPartialList(ds, numberOfAllGroups, firstActiveGroupIndex, index + 1,
                      Append(groups, [index     |-> index,
                                      isActive  |-> index >= firstActiveGroupIndex,
                                      publicKey |-> publicKey.value,
                                      members   |-> members.value]),
                      calls \o <<<<"GroupPublicKey", index>>,
                                 <<"GroupMembers", publicKey.value>>>>)

\* a faulty variant: a group is active only above the first active index
RECURSIVE fetchGroupsDataFrom_ActiveAboveFirst(_, _, _, _, _, _)
fetchGroupsDataFrom_ActiveAboveFirst(ds, numberOfAllGroups, firstActiveGroupIndex, index, groups, calls) ==
    IF ~(index < numberOfAllGroups) THEN [value |-> groups, err |-> Nil, calls |-> calls]
    ELSE LET publicKey == GroupPublicKey(ds, index)
             members   == GroupMembersOf(ds, publicKey.value)
         IN  IF publicKey.err # Nil
                 THEN [value |-> Nil,
                       err   |-> Errorf("could not get public key of group with index ["
                                            \o ToString(index) \o "]: [%v]", publicKey.err),
                       calls |-> calls \o <<<<"GroupPublicKey", index>>>>]
             ELSE IF members.err # Nil
                 THEN [value |-> Nil,
                       err   |-> Errorf("could not get members of group with index ["
                                            \o ToString(index) \o "]: [%v]", members.err),
                       calls |-> calls \o <<<<"GroupPublicKey", index>>,
                                            <<"GroupMembers", publicKey.value>>>>]
             ELSE fetchGroupsDataFrom_ActiveAboveFirst(ds, numberOfAllGroups, firstActiveGroupIndex, index + 1,
                      Append(groups, [index     |-> index,
                                      isActive  |-> index > firstActiveGroupIndex,
                                      publicKey |-> publicKey.value,
                                      members   |-> members.value]),
                      calls \o <<<<"GroupPublicKey", index>>,
                                 <<"GroupMembers", publicKey.value>>>>)

\* the loop of fetchGroupsData, from index on: the groups appended to those
\* fetched so far, or no list and the wrapped error of the first failed call
RECURSIVE fetchGroupsDataFrom(_, _, _, _, _, _)
fetchGroupsDataFrom(ds, numberOfAllGroups, firstActiveGroupIndex, index, groups, calls) ==
    IF ~(index < numberOfAllGroups) THEN [value |-> groups, err |-> Nil, calls |-> calls]
    ELSE LET publicKey == GroupPublicKey(ds, index)
             members   == GroupMembersOf(ds, publicKey.value)
         IN  IF publicKey.err # Nil
                 THEN [value |-> Nil,
                       err   |-> Errorf("could not get public key of group with index ["
                                            \o ToString(index) \o "]: [%v]", publicKey.err),
                       calls |-> calls \o <<<<"GroupPublicKey", index>>>>]
             ELSE IF members.err # Nil
                 THEN [value |-> Nil,
                       err   |-> Errorf("could not get members of group with index ["
                                            \o ToString(index) \o "]: [%v]", members.err),
                       calls |-> calls \o <<<<"GroupPublicKey", index>>,
                                            <<"GroupMembers", publicKey.value>>>>]
             ELSE fetchGroupsDataFrom(ds, numberOfAllGroups, firstActiveGroupIndex, index + 1,
                      Append(groups, [index     |-> index,
                                      isActive  |-> index >= firstActiveGroupIndex,
                                      publicKey |-> publicKey.value,
                                      members   |-> members.value]),
                      calls \o <<<<"GroupPublicKey", index>>,
                                 <<"GroupMembers", publicKey.value>>>>)

\* fetchGroupsData
fetchGroupsData(ds) ==
    LET numberOfAllGroups     == AllGroupsCount(ds)
        firstActiveGroupIndex == FirstActiveGroupIndex(ds)
    IN  IF numberOfAllGroups.err # Nil
            THEN [value |-> Nil,
                  err   |-> Errorf("could not get total group count: [%v]",
                                   numberOfAllGroups.err),
                  calls |-> <<<<"AllGroupsCount">>>>]
        ELSE IF firstActiveGroupIndex.err # Nil
            THEN [value |-> Nil,
                  err   |-> Errorf("could not get first active group index: [%v]",
                                   firstActiveGroupIndex.err),
                  calls |-> <<<<"AllGroupsCount">>, <<"FirstActiveGroupIndex">>>>]
        ELSE fetchGroupsDataFrom(ds, numberOfAllGroups.value,
                                 firstActiveGroupIndex.value, 0, <<>>,
                                 <<<<"AllGroupsCount">>, <<"FirstActiveGroupIndex">>>>)

\* FetchCommonData: what it stores in brg.groups, and what it returns
FetchCommonData(ds) ==
    LET fetched == fetchGroupsData(ds)
    IN  [groups |-> fetched.value, err |-> fetched.err, calls |-> fetched.calls]

(***************************************************************************)
(* One customer's report (BeaconReportGenerator.Generate)                  *)
(***************************************************************************)
\* the decimal digits of a natural number, the most significant first; no
\* digit for zero
RECURSIVE NDigits(_)
NDigits(n) ==
    IF n = <<>> THEN ""
    ELSE CHOOSE digits \in {NDigits(d.q) \o ToString(d.r) : d \in {NDivSmall(n, 10)}} :
             TRUE

RECURSIVE Zeros(_)
Zeros(k) == IF k <= 0 THEN "" ELSE "0" \o Zeros(k - 1)

\* |x| * 10^digits rounded to an integer, a tie to the even one
RoundedToDigits(x, digits) ==
    IF x.exp >= 0 THEN NShl(NMul(x.mant, NPow10(digits)), x.exp)
    ELSE CHOOSE n \in
             {IF c > 0 \/ (c = 0 /\ Limb(q, 1) % 2 = 1) THEN NAdd(q, <<1>>) ELSE q :
                  q \in {NShr(NMul(x.mant, NPow10(digits)), -x.exp)},
                  c \in {NCmp(NSub(NMul(x.mant, NPow10(digits)),
                                   NShl(NShr(NMul(x.mant, NPow10(digits)), -x.exp),
                                        -x.exp)),
                              NShl(<<1>>, -x.exp - 1))}} : TRUE

\* the sign, the integer part of n / 10^digits in decimal and, after a
\* point, its decimals
Decimal(neg, parts, digits) ==
    (IF neg THEN "-" ELSE "")
        \o (IF parts.q = <<>> THEN "0" ELSE NDigits(parts.q))
        \o (IF digits = 0 THEN ""
            ELSE "." \o Zeros(digits - Len(NDigits(parts.r))) \o NDigits(parts.r))

\* x.Text('f', digits): the sign of x, the integer part, and after a point
\* the given number of decimals, the exact value rounded to nearest even
Text(x, digits) ==
    CHOOSE text \in
        {Decimal(x.neg, parts, digits) :
             parts \in {NDivMod(n, NPow10(digits)) :
                           n \in {RoundedToDigits(x, digits)}}} : TRUE

\* EthereumClient.Stake: the staked tokens of the address, in whole tokens
Stake(ds, address) ==
    IF <<"Stake", HexToAddress(address)>> \in ds.failing
    THEN [value |-> Nil, err |-> <<"Stake", HexToAddress(address)>>]
    ELSE [value |-> WeiToEth(ds.stake[HexToAddress(address)]), err |-> Nil]

\* EthereumClient.EthBalance
EthBalance(ds, address) ==
    IF <<"EthBalance", HexToAddress(address)>> \in ds.failing
    THEN [value |-> Nil, err |-> <<"EthBalance", HexToAddress(address)>>]
    ELSE [value |-> WeiToEth(ds.ethBalance[HexToAddress(address)]), err |-> Nil]

\* EthereumClient.KeepBalance
KeepBalance(ds, address) ==
    IF <<"KeepBalance", HexToAddress(address)>> \in ds.failing
    THEN [value |-> Nil, err |-> <<"KeepBalance", HexToAddress(address)>>]
    ELSE [value |-> WeiToEth(ds.keepBalance[HexToAddress(address)]), err |-> Nil]

\* a faulty variant: the member reward is queried before the withdrawal
\* status, for withdrawn groups too
RECURSIVE accumulatedRewardsCallsFrom_RewardsFirst(_, _, _, _)
accumulatedRewardsCallsFrom_RewardsFirst(groups, ds, operator, i) ==
    IF i > Len(groups) THEN <<>>
    ELSE LET rewardsWithdrawn == AreRewardsWithdrawn(ds, operator, groups[i].index)
             memberRewards    == GroupMemberRewards(ds, groups[i].publicKey)
             withdrawnCall    == <<"AreRewardsWithdrawn", groups[i].index>>
             rewardsCall      == <<"GroupMemberRewards", groups[i].publicKey>>
         IN  IF memberRewards.err # Nil THEN <<rewardsCall>>
             ELSE IF rewardsWithdrawn.err # Nil THEN <<rewardsCall, withdrawnCall>>
             ELSE <<rewardsCall, withdrawnCall>>
                      \o accumulatedRewardsCallsFrom_RewardsFirst(groups, ds, operator, i + 1)

\* the calls calculateAccumulatedRewards makes from the i-th group on
RECURSIVE accumulatedRewardsCallsFrom(_, _, _, _)
accumulatedRewardsCallsFrom(groups, ds, operator, i) ==
    IF i > Len(groups) THEN <<>>
    ELSE LET rewardsWithdrawn == AreRewardsWithdrawn(ds, operator, groups[i].index)
             memberRewards    == GroupMemberRewards(ds, groups[i].publicKey)
             withdrawnCall    == <<"AreRewardsWithdrawn", groups[i].index>>
             rewardsCall      == <<"GroupMemberRewards", groups[i].publicKey>>
         IN  IF rewardsWithdrawn.err # Nil THEN <<withdrawnCall>>
             ELSE IF rewardsWithdrawn.value
                 THEN <<withdrawnCall>>
                          \o accumulatedRewardsCallsFrom(groups, ds, operator, i + 1)
             ELSE IF memberRewards.err # Nil THEN <<withdrawnCall, rewardsCall>>
             ELSE <<withdrawnCall, rewardsCall>>
                      \o accumulatedRewardsCallsFrom(groups, ds, operator, i + 1)

\* Generate once the data source has answered its queries: the report, or
\* no report and the error of the first query that failed; calls are the
\* calls that calculateAccumulatedRewards made
GenerateFrom(groups, customer, stake, operatorEthBalance, beneficiaryEthBalance, beneficiaryKeepBalance, accumulatedEthRewards, calls) ==
    LET stakeCall           == <<"Stake", HexToAddress(customer.Operator)>>
        operatorEthCall     == <<"EthBalance", HexToAddress(customer.Operator)>>
        beneficiaryEthCall  == <<"EthBalance", HexToAddress(customer.Beneficiary)>>
        beneficiaryKeepCall == <<"KeepBalance", HexToAddress(customer.Beneficiary)>>
        failed(err, made)   ==
            [report |-> Nil, err |-> err, groups |-> groups, calls |-> made]
        BeaconReport(shares, summary) ==
            [Customer                   |-> customer,
             Stake                      |-> Text(stake.value, 0),
             OperatorBalance            |-> Text(operatorEthBalance.value, 6),
             BeneficiaryEthBalance      |-> Text(beneficiaryEthBalance.value, 6),
             BeneficiaryKeepBalance     |-> Text(beneficiaryKeepBalance.value, 6),
             AccumulatedRewards         |-> Text(accumulatedEthRewards.value, 6),
             CustomerEthShare           |-> Text(shares.customerEthRewardShare, 6),
             ProviderEthShare           |-> Text(shares.providerEthRewardShare, 6),
             CustomerKeepShare          |-> Text(shares.customerKeepRewardShare, 6),
             ProviderKeepShare          |-> Text(shares.providerKeepRewardShare, 6),
             TotalGroupsCount           |-> Len(groups),
             ActiveGroupsCount          |->
                 Cardinality(DOMAIN summary.activeGroupsSummary),
             ActiveGroupsMembersCount   |-> summary.activeGroupsMemberCount,
             ActiveGroupsSummary        |-> summary.activeGroupsSummary,
             InactiveGroupsMembersCount |-> summary.inactiveGroupsMemberCount]
    IN  IF stake.err # Nil THEN failed(stake.err, <<stakeCall>>)
        ELSE IF operatorEthBalance.err # Nil
            THEN failed(operatorEthBalance.err, <<stakeCall, operatorEthCall>>)
        ELSE IF beneficiaryEthBalance.err # Nil
            THEN failed(beneficiaryEthBalance.err,
                        <<stakeCall, operatorEthCall, beneficiaryEthCall>>)
        ELSE IF beneficiaryKeepBalance.err # Nil
            THEN failed(beneficiaryKeepBalance.err,
                        <<stakeCall, operatorEthCall, beneficiaryEthCall,
                          beneficiaryKeepCall>>)
        ELSE IF accumulatedEthRewards.err # Nil
            THEN failed(accumulatedEthRewards.err,
                        <<stakeCall, operatorEthCall, beneficiaryEthCall,
                          beneficiaryKeepCall>> \o calls)
        ELSE [report |->
                  CHOOSE report \in
                      {BeaconReport(shares, summary) :
                           shares \in {calculateFinalBeaconRewards(
                                           NewFloat(customer.CustomerSharePercentage),
                                           beneficiaryEthBalance.value,
                                           beneficiaryKeepBalance.value,
                                           accumulatedEthRewards.value)},
                           summary \in {summarizeGroupsInfo(groups, customer.Operator)}} :
                      TRUE,
              err    |-> Nil,
              groups |-> groups,
              calls  |-> <<stakeCall, operatorEthCall, beneficiaryEthCall,
                           beneficiaryKeepCall>> \o calls]

\* a failed query taken as an answer of zero
ZeroIfFailed(answer) ==
    IF answer.err # Nil THEN [value |-> WeiToEth(<<>>), err |-> Nil] ELSE answer

\* a faulty variant: a failed query of a stake or a balance is taken as zero
\* and the report is made
Generate_ZeroForFailedBalance(groups, ds, customer) ==
    CHOOSE generated \in
        {GenerateFrom(groups, customer, ZeroIfFailed(stake),
                      ZeroIfFailed(operatorEthBalance),
                      ZeroIfFailed(beneficiaryEthBalance),
                      ZeroIfFailed(beneficiaryKeepBalance),
                      accumulatedEthRewards, calls) :
             stake                  \in {Stake(ds, customer.Operator)},
             operatorEthBalance     \in {EthBalance(ds, customer.Operator)},
             beneficiaryEthBalance  \in {EthBalance(ds, customer.Beneficiary)},
             beneficiaryKeepBalance \in {KeepBalance(ds, customer.Beneficiary)},
             accumulatedEthRewards  \in
                 {calculateAccumulatedRewards(groups, ds, customer.Operator)},
             calls \in {accumulatedRewardsCallsFrom(groups, ds, customer.Operator, 1)}} :
        TRUE

\* a faulty variant: the inactive groups are dropped from the generator's
\* list once the report is made
Generate_DropsInactiveGroups(groups, ds, customer) ==
    CHOOSE generated \in
        {[GenerateFrom(groups, customer, stake, operatorEthBalance,
                       beneficiaryEthBalance, beneficiaryKeepBalance,
                       accumulatedEthRewards, calls)
              EXCEPT !.groups = SelectSeq(groups, LAMBDA g : g.isActive)] :
             stake                  \in {Stake(ds, customer.Operator)},
             operatorEthBalance     \in {EthBalance(ds, customer.Operator)},
             beneficiaryEthBalance  \in {EthBalance(ds, customer.Beneficiary)},
             beneficiaryKeepBalance \in {KeepBalance(ds, customer.Beneficiary)},
             accumulatedEthRewards  \in
                 {calculateAccumulatedRewards(groups, ds, customer.Operator)},
             calls \in {accumulatedRewardsCallsFrom(groups, ds, customer.Operator, 1)}} :
        TRUE

\* Generate: the queries of the data source, each made once and its answer
\* kept, and what is made of the answers; groups is the generator's list
\* after the call
Generate(groups, ds, customer) ==
    CHOOSE generated \in
        {GenerateFrom(groups, customer, stake, operatorEthBalance,
                      beneficiaryEthBalance, beneficiaryKeepBalance,
                      accumulatedEthRewards, calls) :
             stake                  \in {Stake(ds, customer.Operator)},
             operatorEthBalance     \in {EthBalance(ds, customer.Operator)},
             beneficiaryEthBalance  \in {EthBalance(ds, customer.Beneficiary)},
             beneficiaryKeepBalance \in {KeepBalance(ds, customer.Beneficiary)},
             accumulatedEthRewards  \in
                 {calculateAccumulatedRewards(groups, ds, customer.Operator)},
             calls \in {accumulatedRewardsCallsFrom(groups, ds, customer.Operator, 1)}} :
        TRUE

(***************************************************************************)
(* State.  groups is the generator's snapshot (brg.groups) and dataSource  *)
(* what the chain answers; phase, args and result are one call under       *)
(* study: its arguments, how far it has got, and what it has returned.     *)
(***************************************************************************)
VARIABLES phase, args, result, groups, dataSource

vars == <<phase, args, result, groups, dataSource>>

NoGroups == <<>>

NoDataSource == [withdrawn |-> {}, memberRewards |-> <<>>, failing |-> {}]

NoResult == [none |-> TRUE]

\* mantissa * 10^zeros base units (wei), as the chain reports a balance
Wei(mantissa, zeros) == NMul(NFromInt(mantissa), NPow10(zeros))

\* the amounts of the documented scenarios, in ETH or KEEP
Eth_0_285758 == WeiToEth(Wei(285758, 12))
Eth_1_22 == WeiToEth(Wei(122, 16))
Eth_1_5 == WeiToEth(Wei(15, 17))
Eth_1_924875 == WeiToEth(Wei(1924875, 12))

\* the smallest balances: 1..MaxDust base units
MaxDust == 3

Dust == {WeiToEth(NFromInt(k)) : k \in 1..MaxDust}

\* 934934930.314218494717665003 tokens, a balance near the KEEP supply of
\* 10^9 tokens, where the 64-bit mantissa is coarsest
LargeBalance ==
    WeiToEth(NAdd(Wei(934934930, 18), NAdd(Wei(314218494, 9), NFromInt(717665003))))

Percentages == 0..100

EthBalances == {WeiToEth(<<>>), Eth_1_22, LargeBalance}

KeepBalances == {Eth_1_5, Eth_1_924875, LargeBalance} \cup Dust

AccumulatedRewards == {WeiToEth(<<>>), Eth_0_285758} \cup Dust

SplitInit ==
    /\ phase = "input"
    /\ args \in [customerSharePercentage : Percentages,
                 beneficiaryEthBalance   : EthBalances,
                 beneficiaryKeepBalance  : KeepBalances,
                 accumulatedEthRewards   : AccumulatedRewards]
    /\ result = NoResult
    /\ groups = NoGroups
    /\ dataSource = NoDataSource

\* Generate's call of calculateFinalBeaconRewards
CalculateFinal ==
    /\ phase = "input"
    /\ phase' = "done"
    /\ result' = calculateFinalBeaconRewards(
                     NewFloat(args.customerSharePercentage),
                     args.beneficiaryEthBalance,
                     args.beneficiaryKeepBalance,
                     args.accumulatedEthRewards)
    /\ UNCHANGED <<args, groups, dataSource>>

SplitNext == CalculateFinal

SplitSpec == SplitInit /\ [][SplitNext]_vars

(***************************************************************************)
(* One call of the split with operational costs, as Generate of the older  *)
(* generator makes it: the initial operator balance is a whole number of   *)
(* coins from the customers file, the other amounts come from the chain.   *)
(***************************************************************************)
MaxInitialEth == 2

Eth_1 == WeiToEth(Wei(1, 18))

CostPercentages == {0, 50, 80, 100}

OperatorEthBalances == {Eth_1, Eth_1_924875, WeiToEth(Wei(2, 18)), WeiToEth(Wei(3, 18))}

CostEthBalances == {WeiToEth(<<>>), Eth_1, Eth_1_22}

CostKeepBalances == {WeiToEth(<<>>), Eth_1, Eth_1_924875, WeiToEth(Wei(9, 18))}

CostAccumulatedRewards == {WeiToEth(<<>>), Eth_1, Eth_0_285758} \cup Dust

CostInit ==
    /\ phase = "input"
    /\ args \in [initialOperatorEthBalance : 0..MaxInitialEth,
                 customerSharePercentage   : CostPercentages,
                 operatorEthBalance        : OperatorEthBalances,
                 beneficiaryEthBalance     : CostEthBalances,
                 beneficiaryKeepBalance    : CostKeepBalances,
                 accumulatedEthRewards     : CostAccumulatedRewards]
    /\ result = NoResult
    /\ groups = NoGroups
    /\ dataSource = NoDataSource

\* Generate's call of calculateFinalBeaconRewards with operational costs
CalculateFinalWithCosts ==
    /\ phase = "input"
    /\ phase' = "done"
    /\ result' = calculateFinalBeaconRewardsWithCosts(
                     NewFloat(args.initialOperatorEthBalance),
                     NewFloat(args.customerSharePercentage),
                     args.operatorEthBalance,
                     args.beneficiaryEthBalance,
                     args.beneficiaryKeepBalance,
                     args.accumulatedEthRewards)
    /\ UNCHANGED <<args, groups, dataSource>>

CostNext == CalculateFinalWithCosts

CostSpec == CostInit /\ [][CostNext]_vars

(***************************************************************************)
(* The membership accounting of one customer over a snapshot as            *)
(* fetchGroupsData builds it: groups 0..n-1 in order, active from the      *)
(* first active index on, each with the members GroupMembers returned.     *)
(***************************************************************************)
MaxGroups == 2

\* an operator's address in the checksummed form Address.Hex() prints and in
\* capitals, and another operator's in its checksummed form and in lower case
Address_Ab == <<"0", "x", "A", "b">>

Address_AB == <<"0", "X", "A", "B">>

Address_Cd == <<"0", "x", "C", "d">>

Address_cd == <<"0", "x", "c", "d">>

Operators == {Address_AB, Address_Ab, Address_cd}

\* what GroupMembers can return for a group: the addresses of its slots
GroupMembersLists ==
    {<<Address_Cd, Address_Cd>>,
     <<Address_Ab, Address_cd>>,
     <<Address_Cd, Address_Ab, Address_Ab>>}

\* EthereumClient.GroupMembers: slot i + 1 for the i-th address returned
GroupMembers(addresses) == [i \in 1..Len(addresses) |-> addresses[i]]

\* a public key of 17 bytes: its first, zeros, its last
PublicKey(first, last) ==
    [i \in 1..17 |-> IF i = 1 THEN first ELSE IF i = 17 THEN last ELSE 0]

\* the public keys of the groups by index: different from the first byte on,
\* or alike in their first 16 bytes
PublicKeys == {[i \in 0..MaxGroups |-> PublicKey(i + 1, 0)],
               [i \in 0..MaxGroups |-> PublicKey(171, i)]}

\* the reward of one member of group i, in wei: 0.142879 coins times i + 1
MemberRewards(i) == Wei(142879 * (i + 1), 12)

MembershipInit ==
    /\ phase = "input"
    /\ result = NoResult
    /\ \E operator \in Operators : args = [operator |-> operator]
    /\ \E n \in 0..MaxGroups :
       \E firstActiveGroupIndex \in 0..n :
       \E members \in [0..(n - 1) -> GroupMembersLists] :
       \E keys \in PublicKeys :
       \E withdrawn \in SUBSET (0..(n - 1)) :
       \E failing \in {{}} \cup {{<<"AreRewardsWithdrawn", n - 1>>},
                                 {<<"GroupMemberRewards", keys[0]>>}} :
          /\ groups = [i \in 1..n |->
                          [index     |-> i - 1,
                           isActive  |-> i - 1 >= firstActiveGroupIndex,
                           publicKey |-> keys[i - 1],
                           members   |-> GroupMembers(members[i - 1])]]
          /\ dataSource =
                 [withdrawn     |-> {<<HexToAddress(args.operator), index>> :
                                         index \in withdrawn},
                  memberRewards |-> [key \in {keys[i] : i \in 0..(n - 1)} |->
                                         MemberRewards(CHOOSE i \in 0..(n - 1) :
                                                           keys[i] = key)],
                  failing       |-> failing]

\* Generate's call of calculateAccumulatedRewards; Generate returns at once
\* when it fails
CalculateAccumulatedRewards ==
    /\ phase = "input"
    /\ LET accumulatedEthRewards ==
               calculateAccumulatedRewards(groups, dataSource, args.operator)
       IN  /\ result' = [accumulatedEthRewards |-> accumulatedEthRewards.value,
                         err                   |-> accumulatedEthRewards.err]
           /\ phase' = IF accumulatedEthRewards.err # Nil THEN "failed"
                       ELSE "accumulated"
    /\ UNCHANGED <<args, groups, dataSource>>

\* Generate's call of summarizeGroupsInfo, and the counts of the groups it
\* puts in the report
SummarizeGroupsInfo ==
    /\ phase = "accumulated"
    /\ phase' = "done"
    /\ LET summary == summarizeGroupsInfo(groups, args.operator)
       IN  result' = [accumulatedEthRewards      |-> result.accumulatedEthRewards,
                      err                        |-> Nil,
                      totalGroupsCount           |-> Len(groups),
                      activeGroupsCount          |->
                          Cardinality(DOMAIN summary.activeGroupsSummary),
                      activeGroupsMemberCount    |-> summary.activeGroupsMemberCount,
                      inactiveGroupsMemberCount  |-> summary.inactiveGroupsMemberCount,
                      activeGroupsSummary        |-> summary.activeGroupsSummary]
    /\ UNCHANGED <<args, groups, dataSource>>

MembershipNext == CalculateAccumulatedRewards \/ SummarizeGroupsInfo

MembershipSpec == MembershipInit /\ [][MembershipNext]_vars

(***************************************************************************)
(* The batch run (generateBillings, as GenerateBillings calls it for the   *)
(* beacon customers): phase is where the run stands, args.customers the    *)
(* customers list, groups the generator's brg.groups, and result what the  *)
(* run has done so far: the calls of setUp with what each returned, one    *)
(* bill per customer attempted, and the files written.  The exporter and   *)
(* the file system fail the calls named in dataSource.failing, as the      *)
(* chain does.                                                             *)
(***************************************************************************)
MaxCustomers == 2

\* strings.ReplaceAll for texts kept as sequences of characters, one
\* character replaced by another
ReplaceAll(s, old, new) == [i \in 1..Len(s) |-> IF s[i] = old THEN new ELSE s[i]]

\* the characters of a text as a string
RECURSIVE String(_)
String(s) == IF s = <<>> THEN "" ELSE s[1] \o String(Tail(s))

\* fmt.Sprintf(targetDirectory + "/%v_Beacon_Billing.pdf", name)
FileName(targetDirectory, name) ==
    targetDirectory \o "/" \o String(name) \o "_Beacon_Billing.pdf"

\* PdfExporter.Export: the bytes of the report's document, which stand for
\* themselves, or the exporter's error
Export(ds, report) ==
    IF <<"Export", report.Customer.Name>> \in ds.failing
    THEN [value |-> Nil, err |-> <<"Export", report.Customer.Name>>]
    ELSE [value |-> report, err |-> Nil]

\* ioutil.WriteFile: the files after the call, or those before and the error
WriteFile(ds, files, fileName, fileBytes) ==
    IF <<"WriteFile", fileName>> \in ds.failing
    THEN [files |-> files, err |-> <<"WriteFile", fileName>>]
    ELSE [files |-> [name \in DOMAIN files \cup {fileName} |->
                        IF name = fileName THEN fileBytes ELSE files[name]],
          err   |-> Nil]

Customer_A ==
    [Name                    |-> <<"A", " ", "B">>,
     Operator                |-> Address_Ab,
     Beneficiary             |-> Address_Cd,
     CustomerSharePercentage |-> 80]

Customer_C ==
    [Name                    |-> <<"C">>,
     Operator                |-> Address_cd,
     Beneficiary             |-> Address_AB,
     CustomerSharePercentage |-> 30]

\* the customers lists: the first customers of a list that names the two
\* customers in turn, in either order
CustomersLists ==
    {[i \in 1..n |-> IF (i + first) % 2 = 1 THEN Customer_A ELSE Customer_C] :
        n \in 0..MaxCustomers, first \in 0..1}

\* the addresses the chain is asked about
ChainAddresses == {HexToAddress(Address_Ab), HexToAddress(Address_Cd)}

\* the members of the group with this index, as the contract returns them
ChainGroupMembers(index) ==
    CASE index % 3 = 0 -> <<Address_Ab, Address_cd>>
      [] index % 3 = 1 -> <<Address_Cd, Address_Ab, Address_Ab>>
      [] OTHER         -> <<Address_Cd, Address_Cd>>

\* the calls that can fail for a chain of n groups with the given keys
FailingCalls(n, keys) ==
    {<<"AllGroupsCount">>, <<"FirstActiveGroupIndex">>}
        \cup {<<"GroupPublicKey", index>> : index \in 0..(n - 1)}
        \cup {<<"GroupMembers", keys[index]>> : index \in 0..(n - 1)}
        \cup {<<"Stake", address>> : address \in ChainAddresses}
        \cup {<<"EthBalance", address>> : address \in ChainAddresses}
        \cup {<<"KeepBalance", address>> : address \in ChainAddresses}
        \cup {<<"AreRewardsWithdrawn", index>> : index \in 0..(n - 1)}
        \cup {<<"GroupMemberRewards", keys[index]>> : index \in 0..(n - 1)}
        \cup {<<"Export", customer.Name>> : customer \in {Customer_A, Customer_C}}
        \cup {<<"WriteFile", FileName("billings", ReplaceAll(customer.Name, " ", "_"))>> :
                  customer \in {Customer_A, Customer_C}}

\* what the chain answers: n groups, active from the first active index
\* on, the rewards withdrawn and the calls that fail
Chain(n, firstActiveGroupIndex, withdrawn, failing) ==
    [allGroupsCount        |-> n,
     firstActiveGroupIndex |-> firstActiveGroupIndex,
     groupPublicKeys       |-> [index \in 0..(n - 1) |-> PublicKey(index + 1, 0)],
     groupMembers          |-> [key \in {PublicKey(index + 1, 0) : index \in 0..(n - 1)} |->
                                   ChainGroupMembers(key[1] - 1)],
     memberRewards         |-> [key \in {PublicKey(index + 1, 0) : index \in 0..(n - 1)} |->
                                   MemberRewards(key[1] - 1)],
     withdrawn             |-> withdrawn,
     stake                 |-> [address \in ChainAddresses |-> Wei(70000, 18)],
     ethBalance            |-> [address \in ChainAddresses |->
                                   IF address = HexToAddress(Address_Ab)
                                   THEN Wei(1924875, 12) ELSE Wei(122, 16)],
     keepBalance           |-> [address \in ChainAddresses |->
                                   IF address = HexToAddress(Address_Ab)
                                   THEN Wei(15, 17) ELSE <<>>],
     failing               |-> failing]

\* the run before generateBillings is called: the generator holds no groups
\* yet; the chain has up to MaxGroups groups, and at most one call fails,
\* on the chain with the most groups of which the first is inactive
BatchInit ==
    /\ phase = "start"
    /\ groups = Nil
    /\ result = [setUps |-> <<>>, bills |-> <<>>, files |-> <<>>]
    /\ \E customers \in CustomersLists :
          args = [customers |-> customers, targetDirectory |-> "billings"]
    /\ \E n \in 0..MaxGroups :
       \E firstActiveGroupIndex \in 0..n :
       \E withdrawn \in {{}, {<<HexToAddress(Address_cd), 0>>}} :
       \E failing \in {{}} \cup
                      (IF n = MaxGroups /\ firstActiveGroupIndex = 1
                       THEN {{call} : call \in
                                FailingCalls(n, [i \in 0..MaxGroups |-> PublicKey(i + 1, 0)])}
                       ELSE {}) :
          dataSource = Chain(n, firstActiveGroupIndex, withdrawn, failing)

\* generateBillings with no customer: it returns before setting up
NoCustomers ==
    /\ phase = "start"
    /\ Len(args.customers) = 0
    /\ phase' = "finished"
    /\ UNCHANGED <<args, result, groups, dataSource>>

\* a faulty variant: the customers are billed although setUp failed
SetUp_ErrorIgnored ==
    /\ phase = "start"
    /\ Len(args.customers) # 0
    /\ \E fetched \in {FetchCommonData(dataSource)} :
           /\ groups' = fetched.groups
           /\ result' = [result EXCEPT !.setUps =
                            Append(@, [err |-> fetched.err, calls |-> fetched.calls])]
    /\ phase' = "customers"
    /\ UNCHANGED <<args, dataSource>>

\* generateBillings calls setUp, which is the generator's FetchCommonData,
\* and returns when it fails
SetUp ==
    /\ phase = "start"
    /\ Len(args.customers) # 0
    /\ \E fetched \in {FetchCommonData(dataSource)} :
           /\ groups' = fetched.groups
           /\ result' = [result EXCEPT !.setUps =
                            Append(@, [err |-> fetched.err, calls |-> fetched.calls])]
           /\ phase' = IF fetched.err # Nil THEN "finished" ELSE "customers"
    /\ UNCHANGED <<args, dataSource>>

\* a faulty variant: generateBillings returns when a customer's report
\* could not be generated, exported or written
BillCustomer_ReturnsOnFailure(customer, generated) ==
    /\ phase = "customers"
    /\ LET exported == Export(dataSource, generated.report)
           fileName == FileName(args.targetDirectory,
                                ReplaceAll(customer.Name, " ", "_"))
           written  == WriteFile(dataSource, result.files, fileName, exported.value)
           bill(outcome) == [customer |-> customer,
                             report   |-> generated.report,
                             err      |-> generated.err,
                             calls    |-> generated.calls,
                             outcome  |-> outcome]
       IN  /\ groups' = generated.groups
           /\ result' =
                  IF generated.err # Nil
                      THEN [result EXCEPT !.bills = Append(@, bill("generate failed"))]
                  ELSE IF exported.err # Nil
                      THEN [result EXCEPT !.bills = Append(@, bill("export failed"))]
                  ELSE IF written.err # Nil
                      THEN [result EXCEPT !.bills = Append(@, bill("write failed"))]
                  ELSE [result EXCEPT !.bills = Append(@, bill("completed")),
                                      !.files = written.files]
    /\ phase' = IF \/ Len(result.bills) + 1 = Len(args.customers)
                   \/ result'.bills[Len(result.bills) + 1].outcome # "completed"
                THEN "finished" ELSE "customers"
    /\ UNCHANGED <<args, dataSource>>

\* one round of the loop of generateBillings, for what generate returned for
\* the customer: the report is exported and written, the round ending at the
\* first of generate, Export and WriteFile that fails; after the last
\* customer generateBillings returns
BillCustomer(customer, generated) ==
    /\ phase = "customers"
    /\ LET exported == Export(dataSource, generated.report)
           fileName == FileName(args.targetDirectory,
                                ReplaceAll(customer.Name, " ", "_"))
           written  == WriteFile(dataSource, result.files, fileName, exported.value)
           bill(outcome) == [customer |-> customer,
                             report   |-> generated.report,
                             err      |-> generated.err,
                             calls    |-> generated.calls,
                             outcome  |-> outcome]
       IN  /\ groups' = generated.groups
           /\ result' =
                  IF generated.err # Nil
                      THEN [result EXCEPT !.bills = Append(@, bill("generate failed"))]
                  ELSE IF exported.err # Nil
                      THEN [result EXCEPT !.bills = Append(@, bill("export failed"))]
                  ELSE IF written.err # Nil
                      THEN [result EXCEPT !.bills = Append(@, bill("write failed"))]
                  ELSE [result EXCEPT !.bills = Append(@, bill("completed")),
                                      !.files = written.files]
    /\ phase' = IF Len(result.bills) + 1 = Len(args.customers)
                THEN "finished" ELSE "customers"
    /\ UNCHANGED <<args, dataSource>>

\* the round for the next customer of the list, generate being the
\* generator's Generate as GenerateBillings passes it
GenerateAndBill ==
    /\ phase = "customers"
    /\ \E customer \in {args.customers[Len(result.bills) + 1]} :
       \E generated \in {Generate(groups, dataSource, customer)} :
          BillCustomer(customer, generated)

BatchNext == NoCustomers \/ SetUp \/ GenerateAndBill

BatchSpec == BatchInit /\ [][BatchNext]_vars

(***************************************************************************)
(* generateBillings for any generate: the function it is given returns a   *)
(* report or an error, and which of the two is left open.  The chain has   *)
(* MaxGroups groups and at most one call fails.                            *)
(***************************************************************************)
LoopInit ==
    /\ phase = "start"
    /\ groups = Nil
    /\ result = [setUps |-> <<>>, bills |-> <<>>, files |-> <<>>]
    /\ \E customers \in CustomersLists :
          args = [customers |-> customers, targetDirectory |-> "billings"]
    /\ \E failing \in {{}} \cup {{call} : call \in
                                    FailingCalls(MaxGroups,
                                                 [i \in 0..MaxGroups |-> PublicKey(i + 1, 0)])} :
          dataSource = Chain(MaxGroups, 1, {}, failing)

\* what generate(&customer) can return: a report, or an error
GenerateOutcomes(customer) ==
    {[report |-> [Customer |-> customer], err |-> Nil, groups |-> groups, calls |-> <<>>],
     [report |-> Nil, err |-> <<"generate", customer.Name>>, groups |-> groups,
      calls  |-> <<>>]}

\* the round for the next customer of the list
BillNextCustomer ==
    /\ phase = "customers"
    /\ \E customer \in {args.customers[Len(result.bills) + 1]} :
       \E generated \in GenerateOutcomes(customer) :
          BillCustomer(customer, generated)

LoopNext == NoCustomers \/ SetUp \/ BillNextCustomer

\* generateBillings is a sequential function and the functions it calls
\* return: a step that can be taken is taken
LoopSpec == LoopInit /\ [][LoopNext]_vars /\ WF_vars(LoopNext)

(***************************************************************************)
(* Exact values for stating the claims: a float as a dyadic rational       *)
(* [neg, mant, exp], combined without rounding.                            *)
(***************************************************************************)
Exact(x) == [neg |-> x.neg, mant |-> x.mant, exp |-> x.exp]

ExactInt(n) == [neg |-> n < 0, mant |-> NFromInt(IF n < 0 THEN -n ELSE n), exp |-> 0]

Plus(a, b) == ExactSum(a.neg, a.mant, a.exp, b.neg, b.mant, b.exp)

Minus(a, b) == ExactSum(a.neg, a.mant, a.exp, ~b.neg, b.mant, b.exp)

\* a * n for a natural n given as limbs
Times(a, n) == [neg |-> a.neg, mant |-> NMul(a.mant, n), exp |-> a.exp]

\* |a| <= 10^(-k)
Within(a, k) ==
    NCmp(NShl(NMul(a.mant, NPow10(k)), Max(a.exp, 0)), NShl(<<1>>, Max(-a.exp, 0))) <= 0

\* |a - b| <= 1e-9
Near(a, b) == Within(Minus(a, b), 9)

\* |x - digits / 10^scale| <= 1e-9, for a decimal literal of at most 9 places
NearDecimal(x, digits, scale) ==
    Within(Minus(Times(Exact(x), NPow10(scale)), ExactInt(digits)), 9 - scale)

\* |100 * share - amount * p| <= 1e-7: share is amount * p / 100 within 1e-9
IsPercentOf(share, amount, p) ==
    Within(Minus(Times(share, <<100>>), Times(amount, NFromInt(p))), 7)

(***************************************************************************)
(* Claims about the split without operational costs (SplitSpec)            *)
(***************************************************************************)
Scenario(p, ethBalance, keepBalance, rewards) ==
    [customerSharePercentage |-> p,
     beneficiaryEthBalance   |-> ethBalance,
     beneficiaryKeepBalance  |-> keepBalance,
     accumulatedEthRewards   |-> rewards]

ScenarioA == Scenario(80, Eth_1_22, Eth_1_924875, Eth_0_285758)

ScenarioB == Scenario(70, WeiToEth(<<>>), Eth_1_5, Eth_0_285758)

ScenarioC == Scenario(80, Eth_1_22, Eth_1_924875, WeiToEth(<<>>))

\* C1: for every percentage in 0..100 the two coin shares sum to accumulated
\* rewards plus beneficiary balance, and the two token shares to the
\* beneficiary token balance, within 1e-9
C1_SharesSumToAmountSplit ==
    phase = "done" =>
        /\ Near(Plus(Exact(result.customerEthRewardShare),
                     Exact(result.providerEthRewardShare)),
                Plus(Exact(args.accumulatedEthRewards),
                     Exact(args.beneficiaryEthBalance)))
        /\ Near(Plus(Exact(result.customerKeepRewardShare),
                     Exact(result.providerKeepRewardShare)),
                Exact(args.beneficiaryKeepBalance))

\* a split of the large balance whose two rounded shares do not add up exactly
C1_Witness ==
    /\ phase = "done"
    /\ args.beneficiaryKeepBalance = LargeBalance
    /\ args.beneficiaryEthBalance = Eth_1_22
    /\ args.accumulatedEthRewards = Eth_0_285758
    /\ Minus(Plus(Exact(result.customerKeepRewardShare),
                  Exact(result.providerKeepRewardShare)),
             Exact(args.beneficiaryKeepBalance)).mant # <<>>

\* C2: the customer's coin share is accumulated * p / 100 + balance and the
\* provider's is accumulated - accumulated * p / 100, fractions kept (within
\* 1e-9 of the exact values); scenarios A, B and C give the documented amounts
C2_CoinSharesFollowFormula ==
    phase = "done" =>
        /\ IsPercentOf(Minus(Exact(result.customerEthRewardShare),
                             Exact(args.beneficiaryEthBalance)),
                       Exact(args.accumulatedEthRewards),
                       args.customerSharePercentage)
        /\ IsPercentOf(Minus(Exact(args.accumulatedEthRewards),
                             Exact(result.providerEthRewardShare)),
                       Exact(args.accumulatedEthRewards),
                       args.customerSharePercentage)
        /\ args = ScenarioA =>
               /\ NearDecimal(result.customerEthRewardShare, 14486064, 7)
               /\ NearDecimal(result.providerEthRewardShare, 571516, 7)
        /\ args = ScenarioB =>
               /\ NearDecimal(result.customerEthRewardShare, 2000306, 7)
               /\ NearDecimal(result.providerEthRewardShare, 857274, 7)
        /\ args = ScenarioC =>
               /\ NearDecimal(result.customerEthRewardShare, 122, 2)
               /\ FSign(result.providerEthRewardShare) = 0

\* scenario A has been computed, and its shares have a fractional part
C2_Witness ==
    /\ phase = "done"
    /\ args = ScenarioA
    /\ result.customerEthRewardShare.exp < 0
    /\ result.providerEthRewardShare.exp < 0

\* C3: the customer's token share is token balance * p / 100, the provider's
\* is the token balance less the customer's share, and neither changes when
\* the coin balance or the accumulated rewards change: whatever these two are,
\* the token shares are those of the same split with both of them 0
C3_TokenSharesFollowFormula ==
    phase = "done" =>
        /\ IsPercentOf(Exact(result.customerKeepRewardShare),
                       Exact(args.beneficiaryKeepBalance),
                       args.customerSharePercentage)
        /\ Near(Exact(result.providerKeepRewardShare),
                Minus(Exact(args.beneficiaryKeepBalance),
                      Exact(result.customerKeepRewardShare)))
        /\ LET other == calculateFinalBeaconRewards(
                            NewFloat(args.customerSharePercentage),
                            WeiToEth(<<>>), args.beneficiaryKeepBalance, WeiToEth(<<>>))
           IN  /\ other.customerKeepRewardShare = result.customerKeepRewardShare
               /\ other.providerKeepRewardShare = result.providerKeepRewardShare

\* scenario B's token split, 1.05 and 0.45, next to non-zero coin amounts
C3_Witness ==
    /\ phase = "done"
    /\ args = ScenarioB
    /\ NearDecimal(result.customerKeepRewardShare, 105, 2)
    /\ NearDecimal(result.providerKeepRewardShare, 45, 2)

\* C4: with p = 0 the customer's token share is 0 and the customer's coin
\* share is exactly the beneficiary balance
C4_ZeroPercentage ==
    (phase = "done" /\ args.customerSharePercentage = 0) =>
        /\ FSign(result.customerKeepRewardShare) = 0
        /\ FCmp(result.customerEthRewardShare, args.beneficiaryEthBalance) = 0

\* p = 0 with accumulated rewards, a coin balance and a token balance to split
C4_Witness ==
    /\ phase = "done"
    /\ args.customerSharePercentage = 0
    /\ args.accumulatedEthRewards = Eth_0_285758
    /\ args.beneficiaryEthBalance = Eth_1_22
    /\ args.beneficiaryKeepBalance = Eth_1_924875

\* C5 as stated: with p = 100 both provider shares are 0
C5_FullPercentageLeavesExactlyZero ==
    (phase = "done" /\ args.customerSharePercentage = 100) =>
        /\ FSign(result.providerEthRewardShare) = 0
        /\ FSign(result.providerKeepRewardShare) = 0

\* C5 as amended: with p = 100 both provider shares are 0 within 1e-9; what
\* is left is the rounding of amount * 100 / 100, of either sign
C5_FullPercentageLeavesZero ==
    (phase = "done" /\ args.customerSharePercentage = 100) =>
        /\ Within(Exact(result.providerEthRewardShare), 9)
        /\ Within(Exact(result.providerKeepRewardShare), 9)

\* p = 100 on the token balance of scenario A: the provider is left a residue
C5_Witness ==
    /\ phase = "done"
    /\ args.customerSharePercentage = 100
    /\ args.beneficiaryKeepBalance = Eth_1_924875
    /\ args.accumulatedEthRewards = Eth_0_285758
    /\ FSign(result.providerKeepRewardShare) # 0
    /\ FSign(result.providerEthRewardShare) = 0

(***************************************************************************)
(* Claims about the split with operational costs (CostSpec)                *)
(***************************************************************************)
\* initialOperatorEthBalance - operatorEthBalance, without rounding
ExactCosts == Minus(ExactInt(args.initialOperatorEthBalance), Exact(args.operatorEthBalance))

\* accumulatedEthRewards + beneficiaryEthBalance - operational costs, without
\* rounding
ExactNet ==
    Minus(Plus(Exact(args.accumulatedEthRewards), Exact(args.beneficiaryEthBalance)),
          ExactCosts)

\* the token balance is split as without operational costs
KeepSplitIsNormal ==
    /\ IsPercentOf(Exact(result.customerKeepRewardShare),
                   Exact(args.beneficiaryKeepBalance),
                   args.customerSharePercentage)
    /\ Near(Exact(result.providerKeepRewardShare),
            Minus(Exact(args.beneficiaryKeepBalance),
                  Exact(result.customerKeepRewardShare)))

\* C6: when initialOperatorEthBalance - operatorEthBalance is negative the
\* function returns its five values normally, the anomaly only logged as an
\* error, and all five are 0: operational costs, both coin shares and both
\* token shares, whatever the percentage, balances and accumulated rewards
C6_NegativeCostsZeroEverything ==
    (phase = "done" /\ FSign(ExactCosts) = -1) =>
        /\ result.anomaly = "error"
        /\ FSign(result.operationalCosts) = 0
        /\ FSign(result.customerEthRewardShare) = 0
        /\ FSign(result.providerEthRewardShare) = 0
        /\ FSign(result.customerKeepRewardShare) = 0
        /\ FSign(result.providerKeepRewardShare) = 0

\* the test's case: 2 coins initially, 3 now, 50 percent, a balance of 1 in
\* both assets and 1 accumulated
C6_Witness ==
    /\ phase = "done"
    /\ args.initialOperatorEthBalance = 2
    /\ args.operatorEthBalance = WeiToEth(Wei(3, 18))
    /\ args.customerSharePercentage = 50
    /\ args.beneficiaryEthBalance = Eth_1
    /\ args.beneficiaryKeepBalance = Eth_1
    /\ args.accumulatedEthRewards = Eth_1
    /\ result.anomaly = "error"

\* C7: when the operational costs are not negative but the net rewards
\* accumulated + beneficiary balance - costs are, both coin shares and the
\* reported operational costs are 0 and the token shares are the normal
\* split of the token balance
C7_NegativeNetZeroesCoinShares ==
    (phase = "done" /\ FSign(ExactCosts) >= 0 /\ FSign(ExactNet) = -1) =>
        /\ result.anomaly = "warning"
        /\ FSign(result.operationalCosts) = 0
        /\ FSign(result.customerEthRewardShare) = 0
        /\ FSign(result.providerEthRewardShare) = 0
        /\ KeepSplitIsNormal

\* costs of 1 coin against nothing received, and a token balance of 9 split
\* into 4.5 and 4.5
C7_Witness ==
    /\ phase = "done"
    /\ args.initialOperatorEthBalance = 2
    /\ args.operatorEthBalance = Eth_1
    /\ args.customerSharePercentage = 50
    /\ args.beneficiaryEthBalance = WeiToEth(<<>>)
    /\ args.accumulatedEthRewards = WeiToEth(<<>>)
    /\ args.beneficiaryKeepBalance = WeiToEth(Wei(9, 18))
    /\ result.anomaly = "warning"
    /\ NearDecimal(result.customerKeepRewardShare, 45, 1)
    /\ NearDecimal(result.providerKeepRewardShare, 45, 1)

\* C8: when neither the operational costs nor the net rewards are negative,
\* the costs are reported as computed, the customer's coin share is
\* net * p / 100 and the provider's is net less the customer's, so that the
\* two sum to net (all within 1e-9 of the exact values)
C8_NetRewardsAreSplit ==
    (phase = "done" /\ FSign(ExactCosts) >= 0 /\ FSign(ExactNet) >= 0) =>
        /\ result.anomaly = "none"
        /\ Near(Exact(result.operationalCosts), ExactCosts)
        /\ IsPercentOf(Exact(result.customerEthRewardShare), ExactNet,
                       args.customerSharePercentage)
        /\ Near(Exact(result.providerEthRewardShare),
                Minus(ExactNet, Exact(result.customerEthRewardShare)))
        /\ Near(Plus(Exact(result.customerEthRewardShare),
                     Exact(result.providerEthRewardShare)),
                ExactNet)

\* the test's case: costs 2 - 1.924875 = 0.075125 against 0.285758
\* accumulated, 0.1053165 to each side at 50 percent
C8_Witness ==
    /\ phase = "done"
    /\ args.initialOperatorEthBalance = 2
    /\ args.operatorEthBalance = Eth_1_924875
    /\ args.customerSharePercentage = 50
    /\ args.beneficiaryEthBalance = WeiToEth(<<>>)
    /\ args.accumulatedEthRewards = Eth_0_285758
    /\ NearDecimal(result.operationalCosts, 75125, 6)
    /\ NearDecimal(result.customerEthRewardShare, 1053165, 7)
    /\ NearDecimal(result.providerEthRewardShare, 1053165, 7)

(***************************************************************************)
(* Claims about membership counting and accumulation (MembershipSpec)      *)
(***************************************************************************)
\* the summary part of the result
ResultSummary ==
    [activeGroupsMemberCount   |-> result.activeGroupsMemberCount,
     inactiveGroupsMemberCount |-> result.inactiveGroupsMemberCount,
     activeGroupsSummary       |-> result.activeGroupsSummary]

\* the snapshot with every member address in lower case
LowerCased(snapshot) ==
    [i \in DOMAIN snapshot |->
        [snapshot[i] EXCEPT !.members = [slot \in DOMAIN @ |-> ToLower(@[slot])]]]

\* the sum calculateAccumulatedRewards converts, in wei
AccumulatedWei(snapshot, operator) ==
    accumulatedRewardsWeiFrom(snapshot, dataSource, operator, 1, <<>>).value

\* C9: an operator address written in any other letter case gives the same
\* active and inactive slot counts (and the same summary) and the same
\* accumulated rewards, and so does the snapshot with its member addresses
\* in another letter case
C9_CountingIgnoresLetterCase ==
    phase = "done" =>
        /\ \A other \in Operators \cup {ToLower(args.operator)} :
               ToLower(other) = ToLower(args.operator) =>
                   /\ summarizeGroupsInfo(groups, other) = ResultSummary
                   /\ result.accumulatedEthRewards =
                          WeiToEth(AccumulatedWei(groups, other))
        /\ summarizeGroupsInfo(LowerCased(groups), args.operator) = ResultSummary
        /\ AccumulatedWei(LowerCased(groups), args.operator) =
               AccumulatedWei(groups, args.operator)

\* the operator written in capitals, a form no group stores, is found in an
\* active and in an inactive group and has rewards accumulated
C9_Witness ==
    /\ phase = "done"
    /\ args.operator = Address_AB
    /\ result.activeGroupsMemberCount = 2
    /\ result.inactiveGroupsMemberCount = 1
    /\ FSign(result.accumulatedEthRewards) = 1

\* the number of slots of the group whose address is the operator's
SlotsHeld(operator, _group) ==
    Cardinality({slot \in DOMAIN _group.members :
                    HexToAddress(_group.members[slot]) = HexToAddress(operator)})

\* the snapshot without its g-th group
Without(snapshot, g) ==
    SubSeq(snapshot, 1, g - 1) \o SubSeq(snapshot, g + 1, Len(snapshot))

\* the data source reports the operator's rewards of the g-th group withdrawn
Withdrawn(g) == <<HexToAddress(args.operator), groups[g].index>> \in dataSource.withdrawn

\* what the g-th group adds: k to the active slot count and k times its
\* member reward to the accumulated rewards, k being the operator's slots
AddsPerSlot(g) ==
    LET k == SlotsHeld(args.operator, groups[g])
    IN  /\ result.activeGroupsMemberCount =
               summarizeGroupsInfo(Without(groups, g), args.operator)
                   .activeGroupsMemberCount + k
        /\ result.accumulatedEthRewards =
               WeiToEth(NAdd(AccumulatedWei(Without(groups, g), args.operator),
                             NMul(dataSource.memberRewards[groups[g].publicKey],
                                  NFromInt(k))))

\* C10 as stated: every active group adds k to the active slot count and
\* k times its member reward to the accumulated rewards
C10_ActiveGroupAddsPerSlot ==
    phase = "done" =>
        \A g \in DOMAIN groups : groups[g].isActive => AddsPerSlot(g)

\* C10 as amended: slots are counted, not distinct addresses; every active
\* group adds k to the active slot count and, unless the operator's rewards
\* of the group are reported withdrawn, k times its member reward to the
\* accumulated rewards
C10_UnwithdrawnActiveGroupAddsPerSlot ==
    phase = "done" =>
        \A g \in DOMAIN groups :
            groups[g].isActive =>
                /\ result.activeGroupsMemberCount =
                       summarizeGroupsInfo(Without(groups, g), args.operator)
                           .activeGroupsMemberCount
                       + SlotsHeld(args.operator, groups[g])
                /\ ~Withdrawn(g) => AddsPerSlot(g)

\* the operator holds two slots of an active group whose rewards are not
\* withdrawn
C10_Witness ==
    /\ phase = "done"
    /\ \E g \in DOMAIN groups :
           /\ groups[g].isActive
           /\ ~Withdrawn(g)
           /\ SlotsHeld(args.operator, groups[g]) = 2
    /\ result.activeGroupsMemberCount >= 2
    /\ FSign(result.accumulatedEthRewards) = 1

\* calculateAccumulatedRewards has returned without an error
Accumulated == phase \in {"accumulated", "done"}

\* the data source with another member reward for the g-th group
WithMemberRewards(g, wei) ==
    [dataSource EXCEPT !.memberRewards[groups[g].publicKey] = wei]

\* C11: a group whose rewards the data source reports withdrawn for the
\* operator adds nothing to the accumulated rewards: they are those of the
\* snapshot without the group, and do not change with the group's member
\* reward, however many slots the operator holds
C11_WithdrawnGroupAddsNothing ==
    Accumulated =>
        \A g \in DOMAIN groups :
            Withdrawn(g) =>
                /\ result.accumulatedEthRewards =
                       WeiToEth(AccumulatedWei(Without(groups, g), args.operator))
                /\ \A wei \in {<<>>, MemberRewards(MaxGroups)} :
                       result.accumulatedEthRewards =
                           calculateAccumulatedRewards(
                               groups, WithMemberRewards(g, wei), args.operator).value

\* the operator holds two slots of a withdrawn group with a member reward,
\* and has rewards from another group
C11_Witness ==
    /\ Accumulated
    /\ \E g \in DOMAIN groups :
           /\ Withdrawn(g)
           /\ SlotsHeld(args.operator, groups[g]) = 2
           /\ dataSource.memberRewards[groups[g].publicKey] # <<>>
    /\ FSign(result.accumulatedEthRewards) = 1

\* the sum in wei, over the groups from the g-th on that are not reported
\* withdrawn, of member reward times the operator's slots
RECURSIVE UnwithdrawnRewardsWei(_)
UnwithdrawnRewardsWei(g) ==
    IF g > Len(groups) THEN <<>>
    ELSE NAdd(IF Withdrawn(g) THEN <<>>
              ELSE NMul(dataSource.memberRewards[groups[g].publicKey],
                        NFromInt(SlotsHeld(args.operator, groups[g]))),
              UnwithdrawnRewardsWei(g + 1))

\* C12: when no call fails the accumulated rewards are the sum, over every
\* group not reported withdrawn, active or not, of member reward times the
\* operator's slots, added up in wei and divided by 10^18 once
C12_AccumulatedIsSumInWei ==
    Accumulated =>
        result.accumulatedEthRewards = WeiToEth(UnwithdrawnRewardsWei(1))

\* the rewards of one slot of an inactive group and of two slots of an active
\* group are added
C12_Witness ==
    /\ Accumulated
    /\ \E g, h \in DOMAIN groups :
           /\ ~groups[g].isActive /\ ~Withdrawn(g)
           /\ SlotsHeld(args.operator, groups[g]) = 1
           /\ groups[h].isActive /\ ~Withdrawn(h)
           /\ SlotsHeld(args.operator, groups[h]) = 2
    /\ FSign(result.accumulatedEthRewards) = 1

\* the operator's slots in the groups with the given activity
RECURSIVE SlotsIn(_, _)
SlotsIn(g, active) ==
    IF g > Len(groups) THEN 0
    ELSE (IF groups[g].isActive = active
          THEN SlotsHeld(args.operator, groups[g]) ELSE 0)
         + SlotsIn(g + 1, active)

\* C13: the active count is the number of the operator's slots in active
\* groups, the inactive count the number in inactive groups, and together
\* they are all the operator's slots in the snapshot
C13_SlotsPartitionedByActivity ==
    phase = "done" =>
        /\ result.activeGroupsMemberCount = SlotsIn(1, TRUE)
        /\ result.inactiveGroupsMemberCount = SlotsIn(1, FALSE)
        /\ result.activeGroupsMemberCount + result.inactiveGroupsMemberCount =
               Cardinality(UNION {{<<g, slot>> :
                                      slot \in {s \in DOMAIN groups[g].members :
                                                   HexToAddress(groups[g].members[s]) =
                                                       HexToAddress(args.operator)}} :
                                  g \in DOMAIN groups})

\* slots on both sides of the partition
C13_Witness ==
    /\ phase = "done"
    /\ result.activeGroupsMemberCount = 2
    /\ result.inactiveGroupsMemberCount = 2

(***************************************************************************)
(* The snapshot builders.  The ECDSA report generator receives the keeps   *)
(* of the chain as two maps from index to address, the active and the      *)
(* inactive ones, and ranges over each map.                                *)
(***************************************************************************)
MaxKeeps == 3

\* the address of the keep at an index, as address.Hex() gives it
KeepAddress(index) == <<"0", "x", "E", ToString(index)>>

\* EcdsaDataSource.Keeps
Keeps(ds) ==
    IF <<"Keeps">> \in ds.failing
    THEN [activeKeeps |-> Nil, inactiveKeeps |-> Nil, err |-> <<"Keeps">>]
    ELSE [activeKeeps |-> ds.activeKeeps, inactiveKeeps |-> ds.inactiveKeeps, err |-> Nil]

\* EcdsaDataSource.KeepMembers
KeepMembers(ds, address) ==
    IF <<"KeepMembers", address>> \in ds.failing
    THEN [value |-> Nil, err |-> <<"KeepMembers", address>>]
    ELSE [value |-> ds.keepMembers[address], err |-> Nil]

\* the orders in which a range statement can visit the keys of a map: the
\* language leaves the order open, each key is visited once
RangeOrders(map) ==
    {order \in [1..Cardinality(DOMAIN map) -> DOMAIN map] :
        \A i, j \in DOMAIN order : order[i] = order[j] => i = j}

\* one of the two loops of fetchKeepsData, over the keys of a map in the
\* order the range statement visits them, from the i-th visited key on
RECURSIVE fetchKeepsDataFrom(_, _, _, _, _, _, _, _)
fetchKeepsDataFrom(ds, map, order, i, isActive, format, keeps, calls) ==
    IF i > Len(order) THEN [value |-> keeps, err |-> Nil, calls |-> calls]
    ELSE LET index   == order[i]
             address == map[index]
             members == KeepMembers(ds, address)
         IN  IF members.err # Nil
                 THEN [value |-> Nil,
                       err   |-> Errorf(format \o String(address) \o "]: [%v]", members.err),
                       calls |-> Append(calls, <<"KeepMembers", address>>)]
             ELSE fetchKeepsDataFrom(ds, map, order, i + 1, isActive, format,
                      Append(keeps, [index    |-> index,
                                     isActive |-> isActive,
                                     address  |-> address,
                                     members  |-> members.value]),
                      Append(calls, <<"KeepMembers", address>>))

\* fetchKeepsData, the range statements visiting the keys of the two maps
\* in the given orders: the keeps, or no list and the wrapped error of the
\* first failed call
fetchKeepsData(ds, activeOrder, inactiveOrder) ==
    LET fetched == Keeps(ds)
        active  == fetchKeepsDataFrom(ds, fetched.activeKeeps, activeOrder, 1, TRUE,
                       "could not get members of an active keep [", <<>>, <<<<"Keeps">>>>)
    IN  IF fetched.err # Nil
            THEN [value |-> Nil,
                  err   |-> Errorf("could not get keeps: [%v]", fetched.err),
                  calls |-> <<<<"Keeps">>>>]
        ELSE IF active.err # Nil THEN active
        ELSE fetchKeepsDataFrom(ds, fetched.inactiveKeeps, inactiveOrder, 1, FALSE,
                 "could not get members of inactive keep [", active.value, active.calls)

\* the chain of the snapshot builders: that of the groups, with n keeps of
\* which those of the set active are active
KeepsChain(groupsChain, n, active, failing) ==
    [allGroupsCount        |-> groupsChain.allGroupsCount,
     firstActiveGroupIndex |-> groupsChain.firstActiveGroupIndex,
     groupPublicKeys       |-> groupsChain.groupPublicKeys,
     groupMembers          |-> groupsChain.groupMembers,
     activeKeeps           |-> [index \in active |-> KeepAddress(index)],
     inactiveKeeps         |-> [index \in (0..(n - 1)) \ active |-> KeepAddress(index)],
     keepMembers           |-> [address \in {KeepAddress(index) : index \in 0..(n - 1)} |->
                                   ChainGroupMembers(CHOOSE index \in 0..(n - 1) :
                                                         KeepAddress(index) = address)],
     failing               |-> failing]

\* the calls of the snapshot builders that can fail
BuilderFailingCalls(groupsCount, keepsCount) ==
    {<<"AllGroupsCount">>, <<"FirstActiveGroupIndex">>, <<"Keeps">>}
        \cup {<<"GroupPublicKey", index>> : index \in 0..(groupsCount - 1)}
        \cup {<<"GroupMembers", PublicKey(index + 1, 0)>> : index \in 0..(groupsCount - 1)}
        \cup {<<"KeepMembers", KeepAddress(index)>> : index \in 0..(keepsCount - 1)}

\* the two generators before their FetchCommonData: no groups, no keeps;
\* the chain has up to MaxGroups groups and up to MaxKeeps keeps, and at
\* most one call fails, on the chain with the most groups and keeps
BuildersInit ==
    /\ phase = "start"
    /\ groups = Nil
    /\ args = Nil
    /\ result = [beacon |-> Nil, ecdsa |-> Nil]
    /\ \E groupsCount \in 0..MaxGroups :
       \E keepsCount \in 0..MaxKeeps :
       \E active \in SUBSET (0..(keepsCount - 1)) :
       \E failing \in {{}} \cup
                      (IF groupsCount = MaxGroups /\ keepsCount = MaxKeeps
                       THEN {{call} : call \in BuilderFailingCalls(groupsCount, keepsCount)}
                       ELSE {}) :
          dataSource = KeepsChain(Chain(groupsCount, 1, {}, failing), keepsCount, active,
                                  failing)

\* BeaconReportGenerator.FetchCommonData
FetchGroups ==
    /\ result.beacon = Nil
    /\ \E fetched \in {FetchCommonData(dataSource)} :
           /\ groups' = fetched.groups
           /\ result' = [result EXCEPT !.beacon = [err |-> fetched.err, calls |-> fetched.calls]]
    /\ phase' = IF result.ecdsa # Nil THEN "finished" ELSE phase
    /\ UNCHANGED <<args, dataSource>>

\* EcdsaReportGenerator.FetchCommonData: what it stores in erg.keeps, and
\* what it returns
FetchKeeps ==
    /\ result.ecdsa = Nil
    /\ \E activeOrder \in RangeOrders(Keeps(dataSource).activeKeeps) :
       \E inactiveOrder \in RangeOrders(Keeps(dataSource).inactiveKeeps) :
       \E fetched \in {fetchKeepsData(dataSource, activeOrder, inactiveOrder)} :
           result' = [result EXCEPT !.ecdsa = [keeps |-> fetched.value, err |-> fetched.err,
                                               calls |-> fetched.calls]]
    /\ phase' = IF result.beacon # Nil THEN "finished" ELSE phase
    /\ UNCHANGED <<args, groups, dataSource>>

BuildersNext == FetchGroups \/ FetchKeeps

BuildersSpec == BuildersInit /\ [][BuildersNext]_vars

(***************************************************************************)
(* The two shapes of the group builder.  The earlier generator had no      *)
(* total count of the groups: it walked the indices below the first active *)
(* index plus the number of active groups, which leaves out the groups     *)
(* terminated since.                                                       *)
(***************************************************************************)
\* EthereumClient.ActiveGroupsCount
ActiveGroupsCount(ds) ==
    IF <<"ActiveGroupsCount">> \in ds.failing
    THEN [value |-> 0, err |-> <<"ActiveGroupsCount">>]
    ELSE [value |-> ds.activeGroupsCount, err |-> Nil]

\* a faulty variant: the walk ends at the number of active groups
fetchGroupsDataByActiveCount_WithoutExpired(ds) ==
    LET activeGroupsCount     == ActiveGroupsCount(ds)
        firstActiveGroupIndex == FirstActiveGroupIndex(ds)
    IN  IF activeGroupsCount.err # Nil
            THEN [value |-> Nil,
                  err   |-> Errorf("could not get active groups count: [%v]",
                                   activeGroupsCount.err),
                  calls |-> <<<<"ActiveGroupsCount">>>>]
        ELSE IF firstActiveGroupIndex.err # Nil
            THEN [value |-> Nil,
                  err   |-> Errorf("could not get first active group index: [%v]",
                                   firstActiveGroupIndex.err),
                  calls |-> <<<<"ActiveGroupsCount">>, <<"FirstActiveGroupIndex">>>>]
        ELSE fetchGroupsDataFrom(ds, activeGroupsCount.value,
                                 firstActiveGroupIndex.value, 0, <<>>,
                                 <<<<"ActiveGroupsCount">>, <<"FirstActiveGroupIndex">>>>)

\* fetchGroupsData of the earlier generator: numberOfAllGroups is
\* firstActiveGroupIndex + activeGroupsCount, the loop is the same
fetchGroupsDataByActiveCount(ds) ==
    LET activeGroupsCount     == ActiveGroupsCount(ds)
        firstActiveGroupIndex == FirstActiveGroupIndex(ds)
    IN  IF activeGroupsCount.err # Nil
            THEN [value |-> Nil,
                  err   |-> Errorf("could not get active groups count: [%v]",
                                   activeGroupsCount.err),
                  calls |-> <<<<"ActiveGroupsCount">>>>]
        ELSE IF firstActiveGroupIndex.err # Nil
            THEN [value |-> Nil,
                  err   |-> Errorf("could not get first active group index: [%v]",
                                   firstActiveGroupIndex.err),
                  calls |-> <<<<"ActiveGroupsCount">>, <<"FirstActiveGroupIndex">>>>]
        ELSE fetchGroupsDataFrom(ds, firstActiveGroupIndex.value + activeGroupsCount.value,
                                 firstActiveGroupIndex.value, 0, <<>>,
                                 <<<<"ActiveGroupsCount">>, <<"FirstActiveGroupIndex">>>>)

\* what the operator contract answers: n groups were created, those below
\* the first active index have expired, and the groups of the set
\* terminated, none of them expired, were terminated; the number of active
\* groups counts neither the expired nor the terminated ones
TerminationsChain(n, firstActiveGroupIndex, terminated, failing) ==
    [allGroupsCount        |-> n,
     activeGroupsCount     |-> n - firstActiveGroupIndex - Cardinality(terminated),
     firstActiveGroupIndex |-> firstActiveGroupIndex,
     terminated            |-> terminated,
     groupPublicKeys       |-> [index \in 0..(n - 1) |-> PublicKey(index + 1, 0)],
     groupMembers          |-> [key \in {PublicKey(index + 1, 0) : index \in 0..(n - 1)} |->
                                   ChainGroupMembers(key[1] - 1)],
     failing               |-> failing]

\* the calls of the two group builders that can fail
ShapesFailingCalls(n) ==
    {<<"AllGroupsCount">>, <<"ActiveGroupsCount">>, <<"FirstActiveGroupIndex">>}
        \cup {<<"GroupPublicKey", index>> : index \in 0..(n - 1)}
        \cup {<<"GroupMembers", PublicKey(index + 1, 0)>> : index \in 0..(n - 1)}

\* the two generators on one chain, before their FetchCommonData; at most
\* one call fails, on the chain with the most groups
ShapesInit ==
    /\ phase = "start"
    /\ groups = Nil
    /\ args = Nil
    /\ result = [byTotalCount |-> Nil, byActiveCount |-> Nil]
    /\ \E n \in 0..(MaxGroups + 1) :
       \E firstActiveGroupIndex \in 0..n :
       \E terminated \in SUBSET (firstActiveGroupIndex..(n - 1)) :
       \E failing \in {{}} \cup
                      (IF n = MaxGroups + 1 /\ terminated = {}
                       THEN {{call} : call \in ShapesFailingCalls(n)}
                       ELSE {}) :
          dataSource = TerminationsChain(n, firstActiveGroupIndex, terminated, failing)

\* FetchCommonData of the generator that has the total count
FetchByTotalCount ==
    /\ result.byTotalCount = Nil
    /\ \E fetched \in {fetchGroupsData(dataSource)} :
           /\ groups' = fetched.value
           /\ result' = [result EXCEPT !.byTotalCount =
                            [groups |-> fetched.value, err |-> fetched.err,
                             calls  |-> fetched.calls]]
    /\ phase' = IF result.byActiveCount # Nil THEN "finished" ELSE phase
    /\ UNCHANGED <<args, dataSource>>

\* FetchCommonData of the earlier generator
FetchByActiveCount ==
    /\ result.byActiveCount = Nil
    /\ \E fetched \in {fetchGroupsDataByActiveCount(dataSource)} :
           result' = [result EXCEPT !.byActiveCount =
                         [groups |-> fetched.value, err |-> fetched.err,
                          calls  |-> fetched.calls]]
    /\ phase' = IF result.byTotalCount # Nil THEN "finished" ELSE phase
    /\ UNCHANGED <<args, groups, dataSource>>

ShapesNext == FetchByTotalCount \/ FetchByActiveCount

ShapesSpec == ShapesInit /\ [][ShapesNext]_vars

(***************************************************************************)
(* The report of the signing keeps (EcdsaReportGenerator.Generate): the    *)
(* rewards accumulated in the keeps of the snapshot, and the counts and    *)
(* the summary of the report.                                              *)
(***************************************************************************)
\* EthereumClient.KeepMemberBalance
KeepMemberBalance(ds, keepAddress, memberAddress) ==
    IF <<"KeepMemberBalance", keepAddress, HexToAddress(memberAddress)>> \in ds.failing
    THEN [value |-> Nil, err |-> <<"KeepMemberBalance", keepAddress,
                                   HexToAddress(memberAddress)>>]
    ELSE [value |-> ds.keepMemberBalance[keepAddress], err |-> Nil]

\* keep.hasMember
hasMember(k, address) ==
    \E i \in DOMAIN k.members : ToLower(address) = ToLower(k.members[i])

\* the number of members of the keep with the operator's address
MembersWithAddress(k, operatorAddress) ==
    Cardinality({i \in DOMAIN k.members : operatorAddress = ToLower(k.members[i])})

\* a faulty variant: the balance is added for each slot of the operator
RECURSIVE keepRewardsWeiFrom_PerSlot(_, _, _, _, _, _)
keepRewardsWeiFrom_PerSlot(keeps, ds, operator, i, accumulatedRewardsWei, calls) ==
    IF i > Len(keeps)
        THEN [value |-> accumulatedRewardsWei, err |-> Nil, calls |-> calls]
    ELSE IF ~hasMember(keeps[i], operator)
        THEN keepRewardsWeiFrom_PerSlot(keeps, ds, operator, i + 1, accumulatedRewardsWei, calls)
    ELSE LET keepMemberBalanceWei == KeepMemberBalance(ds, keeps[i].address, operator)
             called == Append(calls, <<"KeepMemberBalance", keeps[i].address, operator>>)
         IN  IF keepMemberBalanceWei.err # Nil
                 THEN [value |-> Nil, err |-> keepMemberBalanceWei.err, calls |-> called]
             ELSE keepRewardsWeiFrom_PerSlot(keeps, ds, operator, i + 1,
                      NAdd(accumulatedRewardsWei,
                           NMul(keepMemberBalanceWei.value,
                                NFromInt(MembersWithAddress(keeps[i], ToLower(operator))))),
                      called)

\* the loop of calculateAccumulatedRewards over the keeps, from the i-th on
RECURSIVE keepRewardsWeiFrom(_, _, _, _, _, _)
keepRewardsWeiFrom(keeps, ds, operator, i, accumulatedRewardsWei, calls) ==
    IF i > Len(keeps)
        THEN [value |-> accumulatedRewardsWei, err |-> Nil, calls |-> calls]
    ELSE IF ~hasMember(keeps[i], operator)
        THEN keepRewardsWeiFrom(keeps, ds, operator, i + 1, accumulatedRewardsWei, calls)
    ELSE LET keepMemberBalanceWei == KeepMemberBalance(ds, keeps[i].address, operator)
             called == Append(calls, <<"KeepMemberBalance", keeps[i].address, operator>>)
         IN  IF keepMemberBalanceWei.err # Nil
                 THEN [value |-> Nil, err |-> keepMemberBalanceWei.err, calls |-> called]
             ELSE keepRewardsWeiFrom(keeps, ds, operator, i + 1,
                      NAdd(accumulatedRewardsWei, keepMemberBalanceWei.value), called)

\* EcdsaReportGenerator.calculateAccumulatedRewards, with the calls it makes
calculateAccumulatedKeepRewards(keeps, ds, operator) ==
    LET wei == keepRewardsWeiFrom(keeps, ds, operator, 1, <<>>, <<>>)
    IN  IF wei.err # Nil THEN [value |-> Nil, err |-> wei.err, calls |-> wei.calls]
        ELSE [value |-> WeiToEth(wei.value), err |-> Nil, calls |-> wei.calls]

\* countActiveKeepsMembers
RECURSIVE countActiveKeepsMembers(_, _, _)
countActiveKeepsMembers(keeps, operator, i) ==
    IF i > Len(keeps) THEN 0
    ELSE MembersWithAddress(keeps[i], ToLower(operator))
             + countActiveKeepsMembers(keeps, operator, i + 1)

\* the address of a keep, once for each of the n members found
Repeated(address, n) == [i \in 1..n |-> address]

\* prepareKeepsSummary, from the i-th keep on
RECURSIVE prepareKeepsSummaryFrom(_, _, _, _, _)
prepareKeepsSummaryFrom(keeps, operator, i, inactiveKeepsMemberCount, activeKeepSummary) ==
    IF i > Len(keeps)
        THEN [inactiveKeepsMemberCount |-> inactiveKeepsMemberCount,
              activeKeepSummary        |-> activeKeepSummary]
    ELSE IF keeps[i].isActive
        THEN prepareKeepsSummaryFrom(keeps, operator, i + 1, inactiveKeepsMemberCount,
                 activeKeepSummary \o
                     Repeated(ToLower(keeps[i].address),
                              MembersWithAddress(keeps[i], ToLower(operator))))
    ELSE prepareKeepsSummaryFrom(keeps, operator, i + 1,
             inactiveKeepsMemberCount + MembersWithAddress(keeps[i], ToLower(operator)),
             activeKeepSummary)

prepareKeepsSummary(keeps, operator) == prepareKeepsSummaryFrom(keeps, operator, 1, 0, <<>>)

\* the generator after FetchCommonData and the operator of a customer: up
\* to MaxKeeps keeps, active or not, those of one map in the order of their
\* indices; at most one balance cannot be read, on the chain with the most
\* keeps
EcdsaInit ==
    /\ phase = "input"
    /\ result = NoResult
    /\ \E operator \in Operators : args = [operator |-> operator]
    /\ \E n \in 0..MaxKeeps :
       \E active \in SUBSET (0..(n - 1)) :
       \E members \in [0..(n - 1) -> GroupMembersLists] :
       \E failing \in {{}} \cup
                      (IF n = MaxKeeps
                       THEN {{<<"KeepMemberBalance", KeepAddress(n - 1),
                               HexToAddress(args.operator)>>}}
                       ELSE {}) :
          /\ dataSource =
                 [activeKeeps       |-> [index \in active |-> KeepAddress(index)],
                  inactiveKeeps     |-> [index \in (0..(n - 1)) \ active |->
                                            KeepAddress(index)],
                  keepMembers       |-> [address \in {KeepAddress(index) : index \in 0..(n - 1)} |->
                                            members[CHOOSE index \in 0..(n - 1) :
                                                        KeepAddress(index) = address]],
                  keepMemberBalance |-> [address \in {KeepAddress(index) : index \in 0..(n - 1)} |->
                                            MemberRewards(CHOOSE index \in 0..(n - 1) :
                                                              KeepAddress(index) = address)],
                  failing           |-> failing]
          /\ groups = fetchKeepsData(dataSource, SortInts(active),
                                     SortInts((0..(n - 1)) \ active)).value

\* Generate's call of calculateAccumulatedRewards; Generate returns at once
\* when it fails
CalculateAccumulatedKeepRewards ==
    /\ phase = "input"
    /\ \E accumulatedRewards \in
              {calculateAccumulatedKeepRewards(groups, dataSource, args.operator)} :
           /\ result' = [accumulatedRewards |-> accumulatedRewards.value,
                         err                |-> accumulatedRewards.err,
                         calls              |-> accumulatedRewards.calls]
           /\ phase' = IF accumulatedRewards.err # Nil THEN "failed" ELSE "accumulated"
    /\ UNCHANGED <<args, groups, dataSource>>

\* the counts and the summary Generate puts in the report
SummarizeKeeps ==
    /\ phase = "accumulated"
    /\ phase' = "done"
    /\ \E summary \in {prepareKeepsSummary(groups, args.operator)} :
           result' = [accumulatedRewards        |-> result.accumulatedRewards,
                      err                       |-> Nil,
                      calls                     |-> result.calls,
                      ActiveKeepsCount          |-> Len(groups),
                      ActiveKeepsMembersCount   |->
                          countActiveKeepsMembers(groups, args.operator, 1),
                      ActiveKeepsSummary        |-> summary.activeKeepSummary,
                      InactiveKeepsMembersCount |-> summary.inactiveKeepsMemberCount]
    /\ UNCHANGED <<args, groups, dataSource>>

EcdsaNext == CalculateAccumulatedKeepRewards \/ SummarizeKeeps

EcdsaSpec == EcdsaInit /\ [][EcdsaNext]_vars

(***************************************************************************)
(* The customers file (parseCustomers) and the split for a customer read   *)
(* from it.  json.Unmarshal stores any JSON integer in the field           *)
(* CustomerSharePercentage; nothing between the file and the split checks  *)
(* the number.                                                             *)
(***************************************************************************)
\* the value of a decimal digit, or -1 for another character
DigitValue(c) ==
    IF \E d \in 0..9 : ToString(d) = c THEN CHOOSE d \in 0..9 : ToString(d) = c ELSE -1

\* the digits of a JSON number read as a natural number, or -1 when a
\* character is not a digit
RECURSIVE ParseDigits(_, _)
ParseDigits(chars, sofar) ==
    IF chars = <<>> THEN sofar
    ELSE IF DigitValue(chars[1]) < 0 THEN -1
    ELSE ParseDigits(Tail(chars), 10 * sofar + DigitValue(chars[1]))

\* json.Unmarshal of a JSON number into a field of type int: the integer,
\* or an error for a number with a fraction or an exponent
UnmarshalInt(literal) ==
    LET negative  == literal # <<>> /\ literal[1] = "-"
        digits    == IF negative THEN Tail(literal) ELSE literal
        magnitude == IF digits = <<>> THEN -1 ELSE ParseDigits(digits, 0)
    IN  IF magnitude < 0
        THEN [value |-> 0, err |-> <<"json.Unmarshal", literal>>]
        ELSE [value |-> IF negative THEN 0 - magnitude ELSE magnitude, err |-> Nil]

\* parseCustomers, for a file with one customer
parseCustomers(customersFile) ==
    LET percentage == UnmarshalInt(customersFile.CustomerSharePercentage)
    IN  IF percentage.err # Nil THEN [value |-> Nil, err |-> percentage.err]
        ELSE [value |-> [CustomerSharePercentage |-> percentage.value], err |-> Nil]

\* what the file can have for CustomerSharePercentage
PercentageLiterals ==
    {<<"0">>, <<"3", "0">>, <<"1", "0", "0">>, <<"1", "0", "1">>, <<"1", "5", "0">>,
     <<"-", "2", "0">>, <<"1", "2", ".", "5">>}

CustomersInit ==
    /\ phase = "file"
    /\ \E literal \in PercentageLiterals :
       \E balances \in [beneficiaryEthBalance  : {WeiToEth(<<>>), Eth_1_22},
                        beneficiaryKeepBalance : KeepBalances,
                        accumulatedEthRewards  : AccumulatedRewards] :
          args = [customersFile |-> [CustomerSharePercentage |-> literal],
                  balances      |-> balances]
    /\ result = NoResult
    /\ groups = NoGroups
    /\ dataSource = NoDataSource

\* GenerateBillings reads the customers file and returns when that fails
ParseCustomers ==
    /\ phase = "file"
    /\ \E customers \in {parseCustomers(args.customersFile)} :
           /\ result' = [customer |-> customers.value, err |-> customers.err]
           /\ phase' = IF customers.err # Nil THEN "failed" ELSE "customers"
    /\ UNCHANGED <<args, groups, dataSource>>

\* Generate's split for the customer, with the balances the chain reports
SplitForCustomer ==
    /\ phase = "customers"
    /\ phase' = "done"
    /\ \E shares \in {calculateFinalBeaconRewards(
                          NewFloat(result.customer.CustomerSharePercentage),
                          args.balances.beneficiaryEthBalance,
                          args.balances.beneficiaryKeepBalance,
                          args.balances.accumulatedEthRewards)} :
           result' = [customer |-> result.customer, err |-> Nil, shares |-> shares]
    /\ UNCHANGED <<args, groups, dataSource>>

CustomersNext == ParseCustomers \/ SplitForCustomer

CustomersSpec == CustomersInit /\ [][CustomersNext]_vars

(***************************************************************************)
(* The outbound transactions of an operator (outboundTransactions): the    *)
(* block filter gives a map from block number to the hashes of the         *)
(* operator's transactions in the block; the map is ranged over and the    *)
(* transactions are sorted by block with sort.Stable.                      *)
(***************************************************************************)
MaxBlocks == 3

\* CachedBlocks.FilterOutboundTransactions
FilterOutboundTransactions(ds, address) ==
    IF <<"FilterOutboundTransactions", address>> \in ds.failing
    THEN [value |-> Nil, err |-> <<"FilterOutboundTransactions", address>>]
    ELSE [value |-> ds.blocksTransactions, err |-> Nil]

\* DataSource.TransactionGasUsed
TransactionGasUsed(ds, hash) ==
    IF <<"TransactionGasUsed", hash>> \in ds.failing
    THEN [value |-> Nil, err |-> <<"TransactionGasUsed", hash>>]
    ELSE [value |-> ds.gasUsed[hash], err |-> Nil]

\* DataSource.TransactionGasPrice
TransactionGasPrice(ds, hash) ==
    IF <<"TransactionGasPrice", hash>> \in ds.failing
    THEN [value |-> Nil, err |-> <<"TransactionGasPrice", hash>>]
    ELSE [value |-> ds.gasPrice[hash], err |-> Nil]

\* DataSource.TransactionMethod
TransactionMethod(ds, hash) ==
    IF <<"TransactionMethod", hash>> \in ds.failing
    THEN [value |-> "", err |-> <<"TransactionMethod", hash>>]
    ELSE [value |-> ds.method[hash], err |-> Nil]

\* chain.WeiToGwei
WeiToGwei(wei) == FQuo(FSetString(wei), FCanon(FALSE, NPow10(9), 0, 53))

\* calculateTransactionFee
calculateTransactionFee(hash, gasUsed, ds) ==
    LET gasPrice == TransactionGasPrice(ds, hash)
    IN  IF gasPrice.err # Nil THEN [value |-> Nil, err |-> gasPrice.err]
        ELSE [value |-> WeiToGwei(NMul(gasPrice.value, gasUsed)), err |-> Nil]

\* a faulty variant: a transaction also comes before one of the same block
Less_OrSameBlock(bb, i, j) == bb[i].Block <= bb[j].Block

\* byBlock.Less
Less(bb, i, j) == bb[i].Block < bb[j].Block

\* byBlock.Swap
Swap(bb, i, j) == [bb EXCEPT ![i] = bb[j], ![j] = bb[i]]

\* the inner loop of the insertion sort of sort.Stable: the j-th element
\* moves down while it is less than the one before it
RECURSIVE insertionSortDown(_, _)
insertionSortDown(bb, j) ==
    IF j > 1 /\ Less(bb, j, j - 1) THEN insertionSortDown(Swap(bb, j, j - 1), j - 1)
    ELSE bb

\* sort.Stable on at most 20 elements, which it sorts by insertion
RECURSIVE insertionSortFrom(_, _)
insertionSortFrom(bb, i) ==
    IF i > Len(bb) THEN bb ELSE insertionSortFrom(insertionSortDown(bb, i), i + 1)

Stable(bb) == insertionSortFrom(bb, 2)

\* the big.Int in decimal, gasUsed.Text(10)
IntText(n) == IF n = <<>> THEN "0" ELSE NDigits(n)

\* the inner loop of outboundTransactions: the transactions of one block,
\* from the k-th hash on
RECURSIVE transactionsOfBlockFrom(_, _, _, _, _, _)
transactionsOfBlockFrom(ds, blockNumber, transactionsHashes, k, transactions, calls) ==
    IF k > Len(transactionsHashes)
        THEN [value |-> transactions, err |-> Nil, calls |-> calls]
    ELSE LET transactionHash == transactionsHashes[k]
             gasUsed   == TransactionGasUsed(ds, transactionHash)
             fee       == calculateTransactionFee(transactionHash, gasUsed.value, ds)
             operation == TransactionMethod(ds, transactionHash)
             usedCall  == <<"TransactionGasUsed", transactionHash>>
             priceCall == <<"TransactionGasPrice", transactionHash>>
             methodCall == <<"TransactionMethod", transactionHash>>
         IN  IF gasUsed.err # Nil
                 THEN [value |-> Nil, err |-> gasUsed.err, calls |-> calls \o <<usedCall>>]
             ELSE IF fee.err # Nil
                 THEN [value |-> Nil, err |-> fee.err,
                       calls |-> calls \o <<usedCall, priceCall>>]
             ELSE IF operation.err # Nil
                 THEN [value |-> Nil, err |-> operation.err,
                       calls |-> calls \o <<usedCall, priceCall, methodCall>>]
             ELSE transactionsOfBlockFrom(ds, blockNumber, transactionsHashes, k + 1,
                      Append(transactions,
                             CHOOSE transaction \in
                                 {[Block     |-> blockNumber,
                                   Hash      |-> transactionHash,
                                   Fee       |-> feeText,
                                   Gas       |-> IntText(gasUsed.value),
                                   Operation |-> operation.value] :
                                      feeText \in {Text(fee.value, 9)}} : TRUE),
                      calls \o <<usedCall, priceCall, methodCall>>)

\* the outer loop of outboundTransactions, over the blocks of the map in
\* the order the range statement visits them, from the i-th visited on
RECURSIVE outboundTransactionsFrom(_, _, _, _, _, _)
outboundTransactionsFrom(ds, blocksTransactions, order, i, transactions, calls) ==
    IF i > Len(order) THEN [value |-> transactions, err |-> Nil, calls |-> calls]
    ELSE CHOOSE out \in
             {IF ofBlock.err # Nil THEN ofBlock
              ELSE outboundTransactionsFrom(ds, blocksTransactions, order, i + 1,
                                            ofBlock.value, ofBlock.calls) :
                  ofBlock \in {transactionsOfBlockFrom(ds, order[i],
                                   blocksTransactions[order[i]], 1, transactions, calls)}} :
             TRUE

\* outboundTransactions, the range statement visiting the blocks in the
\* given order
outboundTransactions(address, ds, order) ==
    LET blocksTransactions == FilterOutboundTransactions(ds, address)
        filterCall         == <<"FilterOutboundTransactions", address>>
    IN  IF blocksTransactions.err # Nil
            THEN [value |-> Nil, err |-> blocksTransactions.err, calls |-> <<filterCall>>]
        ELSE CHOOSE out \in
                 {IF listed.err # Nil THEN listed
                  ELSE [value |-> Stable(listed.value), err |-> Nil, calls |-> listed.calls] :
                      listed \in {outboundTransactionsFrom(ds, blocksTransactions.value,
                                      order, 1, <<>>, <<filterCall>>)}} : TRUE

\* the first block of the cached range
FirstBlock == 7

\* the hash of the k-th of the operator's transactions mined in a block
TransactionHash(blockNumber, k) == "0x" \o ToString(blockNumber) \o ToString(k)

\* what the filter can list for a block: nothing, one transaction, or two,
\* the one mined second listed first
BlockTransactions(blockNumber) ==
    {<<>>, <<TransactionHash(blockNumber, 1)>>,
     <<TransactionHash(blockNumber, 2), TransactionHash(blockNumber, 1)>>}

\* the hashes listed by the filter
ListedHashes(blocksTransactions) ==
    UNION {{blocksTransactions[b][k] : k \in DOMAIN blocksTransactions[b]} :
               b \in DOMAIN blocksTransactions}

\* the calls of outboundTransactions that can fail
TransactionsFailingCalls(address, hashes) ==
    {<<"FilterOutboundTransactions", address>>}
        \cup {<<"TransactionGasUsed", hash>> : hash \in hashes}
        \cup {<<"TransactionGasPrice", hash>> : hash \in hashes}
        \cup {<<"TransactionMethod", hash>> : hash \in hashes}

\* an operator and the cached blocks before outboundTransactions is
\* called: up to MaxBlocks blocks from the first on, or the last ones of
\* these; at most one call fails, when the filter lists two transactions
\* for every block
TransactionsInit ==
    /\ phase = "input"
    /\ result = NoResult
    /\ groups = NoGroups
    /\ args = [address |-> Address_Ab]
    /\ \E from \in FirstBlock..(FirstBlock + 1) :
       \E to \in (from - 1)..(FirstBlock + MaxBlocks - 1) :
       \E blocksTransactions \in [from..to -> UNION {BlockTransactions(b) : b \in from..to}] :
       \E failing \in {{}} \cup
                      (IF \A b \in from..to : Len(blocksTransactions[b]) = 2
                       THEN {{call} : call \in
                                TransactionsFailingCalls(args.address,
                                    ListedHashes(blocksTransactions))}
                       ELSE {}) :
          /\ \A b \in from..to : blocksTransactions[b] \in BlockTransactions(b)
          /\ dataSource =
                 [blocksTransactions |-> blocksTransactions,
                  gasUsed  |-> [hash \in ListedHashes(blocksTransactions) |-> NFromInt(21000)],
                  gasPrice |-> [hash \in ListedHashes(blocksTransactions) |-> Wei(25, 8)],
                  method   |-> [hash \in ListedHashes(blocksTransactions) |-> "submitRelayEntry"],
                  failing  |-> failing]

\* the call of outboundTransactions for the operator
OutboundTransactions ==
    /\ phase = "input"
    /\ phase' = "done"
    /\ \E order \in RangeOrders(dataSource.blocksTransactions) :
       \E transactions \in {outboundTransactions(args.address, dataSource, order)} :
           result' = [transactions |-> transactions.value,
                      err          |-> transactions.err,
                      calls        |-> transactions.calls,
                      order        |-> order]
    /\ UNCHANGED <<args, groups, dataSource>>

TransactionsNext == OutboundTransactions

TransactionsSpec == TransactionsInit /\ [][TransactionsNext]_vars

(***************************************************************************)
(* Claims about the batch run (BatchSpec)                                  *)
(***************************************************************************)
\* FetchCommonData was called and returned no error
SnapshotBuilt == Len(result.setUps) = 1 /\ result.setUps[1].err = Nil

\* C14 as stated: in a batch run the snapshot is built exactly once, the
\* build has ended before the first customer's Generate, and after a failed
\* build Generate is called for no customer.  A run with no customer ends
\* without any build.
C14_SnapshotBuiltExactlyOnce ==
    /\ phase = "finished" => Len(result.setUps) = 1
    /\ result.bills # <<>> => SnapshotBuilt
    /\ (result.setUps # <<>> /\ result.setUps[1].err # Nil) => result.bills = <<>>

\* C14, amended: the snapshot is built at most once, exactly once in a run
\* with customers and never in a run without; Generate is called only after
\* a build that succeeded, and for no customer after a build that failed.
C14_SnapshotBuiltOnceForCustomers ==
    /\ Len(result.setUps) <= 1
    /\ phase = "finished" =>
           Len(result.setUps) = (IF args.customers = <<>> THEN 0 ELSE 1)
    /\ phase = "customers" => SnapshotBuilt
    /\ result.bills # <<>> => SnapshotBuilt
    /\ (result.setUps # <<>> /\ result.setUps[1].err # Nil) =>
           phase = "finished" /\ result.bills = <<>>

\* a run in which the build failed, at a group's members, and no customer
\* of two was billed
C14_Witness ==
    /\ phase = "finished"
    /\ Len(args.customers) = 2
    /\ Len(result.setUps) = 1
    /\ result.setUps[1].err # Nil
    /\ Len(result.setUps[1].calls) > 3
    /\ result.bills = <<>>

\* C15: Generate and the functions it calls leave the generator's groups
\* unchanged: after any customers were billed, with or without success, the
\* list of groups and each group's index, isActive flag, public key and
\* members are those FetchCommonData stored.
C15_GenerateLeavesSnapshotUnchanged ==
    result.bills # <<>> => groups = FetchCommonData(dataSource).groups

\* two customers billed over a snapshot with an inactive group, the first
\* without success and the second with
C15_Witness ==
    /\ Len(result.bills) = 2
    /\ result.bills[1].err # Nil
    /\ result.bills[2].err = Nil
    /\ \E g \in DOMAIN groups : ~groups[g].isActive

\* C16: snapshot construction fails fast.  The call of the data source
\* that fails is the last one fetchGroupsData makes, it returns an error
\* exactly when one of its calls failed, and then it returns no list: the
\* generator holds no groups or all of them, never a part.
C16_SnapshotConstructionFailsFast ==
    /\ \A s \in DOMAIN result.setUps :
           LET setUp == result.setUps[s]
           IN  /\ setUp.err # Nil <=>
                      \E c \in DOMAIN setUp.calls : setUp.calls[c] \in dataSource.failing
               /\ \A c \in DOMAIN setUp.calls :
                      setUp.calls[c] \in dataSource.failing => c = Len(setUp.calls)
               /\ setUp.err # Nil => groups = Nil
               /\ setUp.err = Nil => Len(groups) = dataSource.allGroupsCount
    /\ groups = Nil \/ Len(groups) = dataSource.allGroupsCount

\* the members of the second group could not be fetched, after the first
\* group was fetched whole
C16_Witness ==
    /\ Len(result.setUps) = 1
    /\ result.setUps[1].err # Nil
    /\ Len(result.setUps[1].calls) = 6
    /\ result.setUps[1].calls[6][1] = "GroupMembers"
    /\ groups = Nil

\* C17: one customer's computation is all-or-nothing.  Generate returns an
\* error exactly when one of its queries of the data source failed; the
\* failed query is the last it makes; with the error it returns no report,
\* and calculateAccumulatedRewards no sum.
C17_GenerateIsAllOrNothing ==
    \A b \in DOMAIN result.bills :
        LET bill        == result.bills[b]
            accumulated ==
                calculateAccumulatedRewards(groups, dataSource, bill.customer.Operator)
        IN  /\ bill.err # Nil <=>
                   \E c \in DOMAIN bill.calls : bill.calls[c] \in dataSource.failing
            /\ \A c \in DOMAIN bill.calls :
                   bill.calls[c] \in dataSource.failing => c = Len(bill.calls)
            /\ bill.err # Nil => bill.report = Nil /\ bill.outcome = "generate failed"
            /\ bill.err = Nil => bill.report # Nil
            /\ accumulated.err # Nil => accumulated.value = Nil /\ bill.err # Nil

\* the member reward of the second group could not be fetched, after the
\* first group's rewards were added for a slot the operator holds
C17_Witness ==
    \E b \in DOMAIN result.bills :
        LET bill == result.bills[b]
        IN  /\ bill.err # Nil
            /\ bill.report = Nil
            /\ Len(bill.calls) = 8
            /\ bill.calls[8] = <<"GroupMemberRewards", groups[2].publicKey>>
            /\ getGroupMemberIndexes(bill.customer.Operator, groups[1]) # {}

\* C19 as stated: the error the caller receives is the one the data source
\* returned, from snapshot construction as from one customer's computation.
\* fetchGroupsData returns another error, made by fmt.Errorf.
C19_ErrorsArePropagatedUnmodified ==
    /\ \A s \in DOMAIN result.setUps :
           result.setUps[s].err # Nil => result.setUps[s].err \in dataSource.failing
    /\ \A b \in DOMAIN result.bills :
           result.bills[b].err # Nil => result.bills[b].err \in dataSource.failing

\* C19, amended: Generate returns the error of the data source's failed
\* call as it is; FetchCommonData returns a new error, whose text names the
\* step that failed and holds the text of the data source's error.
C19_ErrorsArePropagatedOrWrapped ==
    /\ \A s \in DOMAIN result.setUps :
           LET setUp == result.setUps[s]
           IN  setUp.err # Nil =>
                   /\ setUp.err[1] = "fmt.Errorf"
                   /\ setUp.err[3] = setUp.calls[Len(setUp.calls)]
                   /\ setUp.err[3] \in dataSource.failing
                   /\ setUp.err # setUp.err[3]
                   /\ setUp.err[2] \in
                          {"could not get total group count: [%v]",
                           "could not get first active group index: [%v]"} \cup
                          {"could not get public key of group with index ["
                               \o ToString(index) \o "]: [%v]" :
                                    index \in 0..(dataSource.allGroupsCount - 1)} \cup
                          {"could not get members of group with index ["
                               \o ToString(index) \o "]: [%v]" :
                                    index \in 0..(dataSource.allGroupsCount - 1)}
    /\ \A b \in DOMAIN result.bills :
           LET bill == result.bills[b]
           IN  bill.err # Nil =>
                   /\ bill.err = bill.calls[Len(bill.calls)]
                   /\ bill.err \in dataSource.failing

\* after a snapshot was built, a customer's Generate has returned the error
\* of KeepBalance as the data source gave it
C19_Witness ==
    /\ SnapshotBuilt
    /\ \E b \in DOMAIN result.bills :
           /\ result.bills[b].err # Nil
           /\ result.bills[b].err = <<"KeepBalance", HexToAddress(result.bills[b].customer.Beneficiary)>>

(***************************************************************************)
(* Claims about the loop of the batch run (LoopSpec)                        *)
(***************************************************************************)
\* the customers attempted so far, in the order of the attempts
Attempted == [b \in DOMAIN result.bills |-> result.bills[b].customer]

\* C18: per-customer failures are isolated.  The customers attempted are
\* always the first customers of the list, each once and in the list's
\* order, and once set-up has succeeded generateBillings comes to its end
\* with every customer of the list attempted, whatever failed on the way.
C18_EveryCustomerIsAttempted ==
    /\ [](Attempted = SubSeq(args.customers, 1, Len(result.bills)))
    /\ SnapshotBuilt ~> (phase = "finished" /\ Attempted = args.customers)

\* the run has ended: the report of the first of two customers could not be
\* exported, and the second customer was billed
C18_Witness ==
    /\ phase = "finished"
    /\ Len(args.customers) = 2
    /\ Len(result.bills) = 2
    /\ result.bills[1].outcome = "export failed"
    /\ result.bills[2].outcome = "completed"

(***************************************************************************)
(* Claims about the snapshot builders (BuildersSpec)                       *)
(***************************************************************************)
\* the indices a builder has visited, in the order of its calls
RECURSIVE VisitedGroups(_)
VisitedGroups(calls) ==
    IF calls = <<>> THEN <<>>
    ELSE IF calls[1][1] = "GroupPublicKey" THEN <<calls[1][2]>> \o VisitedGroups(Tail(calls))
    ELSE VisitedGroups(Tail(calls))

RECURSIVE VisitedKeeps(_)
VisitedKeeps(calls) ==
    IF calls = <<>> THEN <<>>
    ELSE IF calls[1][1] = "KeepMembers"
         THEN <<CHOOSE index \in 0..(MaxKeeps + 1) : KeepAddress(index) = calls[1][2]>>
                  \o VisitedKeeps(Tail(calls))
    ELSE VisitedKeeps(Tail(calls))

\* a sequence of indices, or of cohorts, ascends
Ascending(indices) == \A i, j \in DOMAIN indices : i < j => indices[i] < indices[j]

AscendingByIndex(cohorts) == Ascending([i \in DOMAIN cohorts |-> cohorts[i].index])

\* the group builder visits the indices 0, 1, ... with no gap or repeat,
\* and its snapshot holds the group of index i - 1 at place i
GroupsVisitedAscending ==
    result.beacon # Nil =>
        /\ VisitedGroups(result.beacon.calls) =
               [i \in 1..Len(VisitedGroups(result.beacon.calls)) |-> i - 1]
        /\ \A i \in DOMAIN groups : groups[i].index = i - 1
        /\ result.beacon.err = Nil => Len(groups) = dataSource.allGroupsCount

\* the keep builder visits the indices in ascending order, and its snapshot
\* is sorted by index
KeepsVisitedAscending ==
    result.ecdsa # Nil =>
        /\ Ascending(VisitedKeeps(result.ecdsa.calls))
        /\ AscendingByIndex(result.ecdsa.keeps)

\* C20: during snapshot construction the cohort indices are visited in
\* ascending order and the snapshot is a sequence sorted by index, for the
\* groups (indices 0..count-1 with no gap or repeat) and for the keeps
C20_CohortsVisitedAscending == GroupsVisitedAscending /\ KeepsVisitedAscending

(***************************************************************************)
(* Claims about the snapshot of the groups (BatchSpec)                     *)
(***************************************************************************)
\* C21: after a successful FetchCommonData the snapshot holds exactly one
\* group for each index 0..AllGroupsCount-1, the group of index i - 1 at
\* place i, and every group is active exactly when its index is at least
\* the first active group index.
C21_SnapshotFollowsThreshold ==
    SnapshotBuilt =>
        /\ Len(groups) = dataSource.allGroupsCount
        /\ \A index \in 0..(dataSource.allGroupsCount - 1) :
               Cardinality({i \in DOMAIN groups : groups[i].index = index}) = 1
        /\ \A i \in DOMAIN groups :
               /\ groups[i].index = i - 1
               /\ groups[i].isActive = (groups[i].index >= dataSource.firstActiveGroupIndex)

\* a snapshot of two groups was built, the first inactive and the second,
\* at the first active index, active
C21_Witness ==
    /\ SnapshotBuilt
    /\ Len(groups) = 2
    /\ dataSource.firstActiveGroupIndex = 1
    /\ ~groups[1].isActive
    /\ groups[2].isActive

(***************************************************************************)
(* Claims about the two shapes of the group builder (ShapesSpec)           *)
(***************************************************************************)
\* the indices of a snapshot with their flags
IndexFlags(snapshot) ==
    {<<snapshot[i].index, snapshot[i].isActive>> : i \in DOMAIN snapshot}

\* both builders have built their snapshot
BothBuilt ==
    /\ result.byTotalCount # Nil /\ result.byTotalCount.err = Nil
    /\ result.byActiveCount # Nil /\ result.byActiveCount.err = Nil

\* C22: the snapshot built from the first active index and the number of
\* active groups holds the same indices with the same flags as the one built
\* from the total count if and only if no group at or after the first
\* active index has been terminated; with t such groups terminated it is
\* the other snapshot without its t highest indices.
C22_ShapesAgreeIffNoTermination ==
    BothBuilt =>
        LET t == Cardinality(dataSource.terminated)
            n == dataSource.allGroupsCount
        IN  /\ (IndexFlags(result.byActiveCount.groups) =
                    IndexFlags(result.byTotalCount.groups)) <=> (t = 0)
            /\ Len(result.byActiveCount.groups) = n - t
            /\ IndexFlags(result.byActiveCount.groups) =
                   {f \in IndexFlags(result.byTotalCount.groups) : f[1] < n - t}
            /\ result.byActiveCount.groups =
                   SubSeq(result.byTotalCount.groups, 1, n - t)

\* both snapshots were built on a chain of three groups, the first expired
\* and the second terminated: the one built from the number of active
\* groups lacks the group of index 2
C22_Witness ==
    /\ BothBuilt
    /\ dataSource.allGroupsCount = 3
    /\ dataSource.firstActiveGroupIndex = 1
    /\ dataSource.terminated = {1}
    /\ Len(result.byTotalCount.groups) = 3
    /\ Len(result.byActiveCount.groups) = 2

\* the slots of a group, numbered from first on, in which the contract's
\* list of members has the operator's address
SlotsNumberedFrom(first, operator, _group) ==
    {first + k : k \in {k \in 0..(Len(dataSource.groupMembers[_group.publicKey]) - 1) :
        ToLower(dataSource.groupMembers[_group.publicKey][k + 1]) = ToLower(operator)}}

\* the slots of every group of the snapshot are first..first+n-1 for the n
\* members the contract lists, each member at its place, and every report
\* shows the operator's slots of an active group in that numbering
SlotsAreNumberedFrom(first) ==
    SnapshotBuilt =>
        /\ \A g \in DOMAIN groups :
               LET addresses == dataSource.groupMembers[groups[g].publicKey]
               IN  /\ DOMAIN groups[g].members = first..(first + Len(addresses) - 1)
                   /\ \A k \in 0..(Len(addresses) - 1) :
                          groups[g].members[first + k] = addresses[k + 1]
        /\ \A b \in DOMAIN result.bills :
               result.bills[b].report # Nil =>
                   \A g \in DOMAIN groups :
                       groups[g].isActive =>
                           LET slots == SlotsNumberedFrom(first,
                                            result.bills[b].customer.Operator, groups[g])
                           IN  result.bills[b].report.ActiveGroupsSummary[
                                       SummaryKey(groups[g].publicKey)] =
                                   (IF slots = {} THEN "-" ELSE JoinInts(SortInts(slots)))

\* C23 as stated: in every group of the snapshot the slot indices are dense
\* and zero-based, a group of n members having the slots 0..n-1, as
\* GroupMembers gives them and the summary shows them.
C23_SlotsAreDenseFromZero == SlotsAreNumberedFrom(0)

\* C23, amended: the slot indices are dense and one-based, a group of n
\* members having the slots 1..n, the i-th address the contract lists at
\* slot i, and the summary shows the slots in that numbering.
C23_SlotsAreDenseFromOne == SlotsAreNumberedFrom(1)

\* a report shows slots "2, 3" for an active group of three members: the
\* operator holds the second and third place of the contract's list
C23_Witness ==
    /\ SnapshotBuilt
    /\ \E b \in DOMAIN result.bills :
       \E g \in DOMAIN groups :
           /\ result.bills[b].report # Nil
           /\ groups[g].isActive
           /\ DOMAIN groups[g].members = 1..3
           /\ result.bills[b].report.ActiveGroupsSummary[SummaryKey(groups[g].publicKey)]
                  = "2, 3"

(***************************************************************************)
(* Claims about the summary of the groups (MembershipSpec)                 *)
(***************************************************************************)
\* the slots of the group whose address is the operator's
HeldSlots(operator, _group) ==
    {slot \in DOMAIN _group.members :
        HexToAddress(_group.members[slot]) = HexToAddress(operator)}

\* the slots listed in ascending order, each once
AscendingListOf(slots) ==
    CHOOSE list \in [1..Cardinality(slots) -> slots] :
        \A i, j \in DOMAIN list : i < j => list[i] < list[j]

\* the text of the slots the operator holds in the g-th group
HeldSlotsText(g) ==
    IF HeldSlots(args.operator, groups[g]) = {} THEN "-"
    ELSE JoinInts(AscendingListOf(HeldSlots(args.operator, groups[g])))

\* the summary has the entry of the g-th group
HasEntryOf(g) == SummaryKey(groups[g].publicKey) \in DOMAIN result.activeGroupsSummary

\* the g-th group is active and the summary's entry for it lists the slots
\* the operator holds in it
SummaryListsHeldSlots(g) ==
    /\ groups[g].isActive
    /\ HasEntryOf(g)
    /\ result.activeGroupsSummary[SummaryKey(groups[g].publicKey)] = HeldSlotsText(g)

\* no two groups of the snapshot have public keys alike in their first 16
\* bytes
DistinctSummaryKeys ==
    \A g, h \in DOMAIN groups :
        SummaryKey(groups[g].publicKey) = SummaryKey(groups[h].publicKey) => g = h

\* C24: for every active group the summary's entry lists exactly the slots
\* the operator holds in that group, in ascending order with none missing or
\* repeated, and is "-" when the operator holds none; an inactive group has
\* no entry.
C24_SummaryListsHeldSlots ==
    phase = "done" =>
        \A g \in DOMAIN groups :
            IF groups[g].isActive THEN SummaryListsHeldSlots(g) ELSE ~HasEntryOf(g)

\* the same for the snapshots whose public keys differ in their first 16
\* bytes
SummaryListsHeldSlotsOfDistinctKeys == DistinctSummaryKeys => C24_SummaryListsHeldSlots

\* C28: in every report TotalGroupsCount is the number of groups of the
\* snapshot and ActiveGroupsCount the number of its active groups, whatever
\* the public keys of the groups, alike in their first 16 bytes or not.
C28_CountsAreThoseOfTheSnapshot ==
    phase = "done" =>
        /\ result.totalGroupsCount = Len(groups)
        /\ result.activeGroupsCount =
               Cardinality({g \in DOMAIN groups : groups[g].isActive})

\* the same for the snapshots whose public keys differ in their first 16
\* bytes
CountsOfDistinctKeys == DistinctSummaryKeys => C28_CountsAreThoseOfTheSnapshot

(***************************************************************************)
(* Claims about the report of the signing keeps (EcdsaSpec)                *)
(***************************************************************************)
\* the slots of the k-th keep of the snapshot held by the operator
KeepSlotsHeld(k) ==
    {slot \in DOMAIN groups[k].members :
        HexToAddress(groups[k].members[slot]) = HexToAddress(args.operator)}

\* the number of slots the operator holds in the keeps with this flag
RECURSIVE KeepSlotsIn(_, _)
KeepSlotsIn(k, active) ==
    IF k = 0 THEN 0
    ELSE KeepSlotsIn(k - 1, active)
             + (IF groups[k].isActive = active THEN Cardinality(KeepSlotsHeld(k)) ELSE 0)

\* C25: in the report of the signing keeps the operator's slots are split by
\* the keep's isActive flag: ActiveKeepsMembersCount counts the slots in
\* active keeps only, InactiveKeepsMembersCount those in inactive keeps
\* only, and ActiveKeepsCount is the number of active keeps of the snapshot.
C25_KeepSlotsSplitByActivity ==
    phase = "done" =>
        /\ result.ActiveKeepsMembersCount = KeepSlotsIn(Len(groups), TRUE)
        /\ result.InactiveKeepsMembersCount = KeepSlotsIn(Len(groups), FALSE)
        /\ result.ActiveKeepsCount = Cardinality({k \in DOMAIN groups : groups[k].isActive})

\* what the report has instead: the slots in all keeps, the slots in
\* inactive keeps, and the number of all keeps
KeepCountsAreOverAllKeeps ==
    phase = "done" =>
        /\ result.ActiveKeepsMembersCount =
               KeepSlotsIn(Len(groups), TRUE) + KeepSlotsIn(Len(groups), FALSE)
        /\ result.InactiveKeepsMembersCount = KeepSlotsIn(Len(groups), FALSE)
        /\ result.ActiveKeepsCount = Len(groups)

\* the keeps of the snapshot that have the operator among their members, in
\* the order of the snapshot
RECURSIVE KeepsOfOperatorFrom(_)
KeepsOfOperatorFrom(k) ==
    IF k > Len(groups) THEN <<>>
    ELSE (IF KeepSlotsHeld(k) # {} THEN <<k>> ELSE <<>>) \o KeepsOfOperatorFrom(k + 1)

\* the sum of the balances of these keeps, in wei
RECURSIVE SumOfKeepBalances(_)
SumOfKeepBalances(ks) ==
    IF ks = <<>> THEN <<>>
    ELSE NAdd(dataSource.keepMemberBalance[groups[ks[1]].address],
              SumOfKeepBalances(Tail(ks)))

\* the queries of the balances of these keeps
BalanceQueries(ks) ==
    [i \in DOMAIN ks |-> <<"KeepMemberBalance", groups[ks[i]].address, args.operator>>]

\* C29: for the signing keeps calculateAccumulatedRewards returns the sum of
\* KeepMemberBalance(keep, operator) over exactly the keeps of the snapshot,
\* active or not, that have the operator among their members, letter case
\* ignored; such a keep is queried and added once whatever the number of
\* slots the operator holds in it, and no other keep is queried.  When a
\* query fails, the queries made are the first of these, up to the failed
\* one.
C29_KeepRewardsAreSummedOncePerKeep ==
    /\ phase \in {"accumulated", "done"} =>
           /\ result.calls = BalanceQueries(KeepsOfOperatorFrom(1))
           /\ result.accumulatedRewards = WeiToEth(SumOfKeepBalances(KeepsOfOperatorFrom(1)))
    /\ phase = "failed" =>
           /\ Len(result.calls) <= Len(KeepsOfOperatorFrom(1))
           /\ result.calls = SubSeq(BalanceQueries(KeepsOfOperatorFrom(1)), 1,
                                    Len(result.calls))
           /\ result.err = <<"KeepMemberBalance", result.calls[Len(result.calls)][2],
                             HexToAddress(args.operator)>>
           /\ result.err \in dataSource.failing

\* the rewards were accumulated over three keeps: the operator, written in
\* another letter case than the members, holds two slots of an active keep
\* and one of an inactive keep and none of the third, and two balances were
\* queried
C29_Witness ==
    /\ phase = "accumulated"
    /\ Len(groups) = 3
    /\ args.operator = Address_AB
    /\ \E k \in DOMAIN groups :
           groups[k].isActive /\ Cardinality(KeepSlotsHeld(k)) = 2
    /\ \E k \in DOMAIN groups :
           ~groups[k].isActive /\ Cardinality(KeepSlotsHeld(k)) = 1
    /\ \E k \in DOMAIN groups : KeepSlotsHeld(k) = {}
    /\ Len(result.calls) = 2
    /\ FSign(result.accumulatedRewards) = 1

(***************************************************************************)
(* Claims about the queries of one customer's computation (BatchSpec)      *)
(***************************************************************************)
\* the queries calculateAccumulatedRewards made for a bill: those after the
\* four balances Generate reads first
RewardQueries(bill) == SubSeq(bill.calls, 5, Len(bill.calls))

\* the places of the queries of the withdrawal status among them
WithdrawalQueries(queries) ==
    {q \in DOMAIN queries : queries[q][1] = "AreRewardsWithdrawn"}

\* the operator's rewards of the g-th group are reported withdrawn
WithdrawnFor(operator, g) ==
    <<HexToAddress(operator), groups[g].index>> \in dataSource.withdrawn

\* C27: calculateAccumulatedRewards goes through the groups in the order of
\* the snapshot; for each group it asks for the withdrawal status of the
\* operator's rewards before the member reward of the group; it never asks
\* for the member reward of a group reported withdrawn; and after a query
\* that failed it makes no other query.
C27_QueriesFollowSnapshotOrder ==
    \A b \in DOMAIN result.bills :
        Len(result.bills[b].calls) > 4 =>
            LET bill    == result.bills[b]
                queries == RewardQueries(bill)
                asked   == Cardinality(WithdrawalQueries(queries))
            IN  \* the g-th query of a withdrawal status is that of the g-th group
                /\ asked <= Len(groups)
                /\ \A g \in 1..asked :
                       \E q \in WithdrawalQueries(queries) :
                           /\ Cardinality({p \in WithdrawalQueries(queries) : p <= q}) = g
                           /\ queries[q] = <<"AreRewardsWithdrawn", groups[g].index>>
                \* a member reward is asked for right after the withdrawal status
                \* of its group, which was answered, and not with "withdrawn"
                /\ \A q \in DOMAIN queries :
                       queries[q][1] = "GroupMemberRewards" =>
                           /\ q > 1
                           /\ \E g \in DOMAIN groups :
                                  /\ queries[q][2] = groups[g].publicKey
                                  /\ queries[q - 1] = <<"AreRewardsWithdrawn", groups[g].index>>
                                  /\ queries[q - 1] \notin dataSource.failing
                                  /\ ~WithdrawnFor(bill.customer.Operator, g)
                \* the member reward of a group not withdrawn is asked for
                /\ \A q \in WithdrawalQueries(queries) :
                       \A g \in DOMAIN groups :
                           (/\ queries[q][2] = groups[g].index
                            /\ queries[q] \notin dataSource.failing
                            /\ ~WithdrawnFor(bill.customer.Operator, g)) =>
                               /\ q < Len(queries)
                               /\ queries[q + 1] = <<"GroupMemberRewards", groups[g].publicKey>>
                \* nothing is asked after a failed query, and every group is asked
                \* for when none failed
                /\ \A q \in DOMAIN queries :
                       queries[q] \in dataSource.failing => q = Len(queries)
                /\ bill.err = Nil => asked = Len(groups)

\* a customer was billed on two groups: the rewards of the first were
\* withdrawn, so that three queries were made, the member reward of the
\* second group last
C27_Witness ==
    \E b \in DOMAIN result.bills :
        /\ result.bills[b].err = Nil
        /\ Len(groups) = 2
        /\ WithdrawnFor(result.bills[b].customer.Operator, 1)
        /\ RewardQueries(result.bills[b]) =
               <<<<"AreRewardsWithdrawn", 0>>, <<"AreRewardsWithdrawn", 1>>,
                 <<"GroupMemberRewards", groups[2].publicKey>>>>

(***************************************************************************)
(* Claims about the customers read from the file (CustomersSpec)           *)
(***************************************************************************)
\* the percentage used in the split lies in 0..100
PercentageInRange == result.customer.CustomerSharePercentage \in 0..100

\* the shares are those of a percentage of 0..100: neither share of the
\* provider is negative, and the customer's token share is at most the
\* beneficiary's token balance
SharesWithinBalances ==
    /\ FSign(result.shares.providerEthRewardShare) >= 0
    /\ FSign(result.shares.providerKeepRewardShare) >= 0
    /\ FCmp(result.shares.customerKeepRewardShare,
            args.balances.beneficiaryKeepBalance) <= 0

\* C26: for every customer read from the customers file for which a report
\* is produced, the percentage used in the split lies in 0..100, the
\* provider's coin share and token share are not negative, and the
\* customer's token share is not above the beneficiary's token balance.
C26_SharesOfFileCustomersWithinBalances ==
    phase = "done" => PercentageInRange /\ SharesWithinBalances

\* the same for the percentages of 0..99
SharesWithinBalancesBelowFull ==
    (phase = "done" /\ result.customer.CustomerSharePercentage \in 0..99) =>
        SharesWithinBalances


(***************************************************************************)
(* Claims about the outbound transactions (TransactionsSpec)               *)
(***************************************************************************)
\* the positions of the returned list holding the transaction of a hash
EntriesOf(hash) == {i \in DOMAIN result.transactions : result.transactions[i].Hash = hash}

\* the position of a hash in the list the filter gave for its block
ListedAt(blockNumber, hash) ==
    CHOOSE k \in DOMAIN dataSource.blocksTransactions[blockNumber] :
        dataSource.blocksTransactions[blockNumber][k] = hash

\* the returned list has one entry for every hash of the filter, under
\* the block the filter listed it for, and no other entry
OneEntryPerListedHash ==
    /\ Len(result.transactions) = Cardinality(ListedHashes(dataSource.blocksTransactions))
    /\ \A b \in DOMAIN dataSource.blocksTransactions :
       \A k \in DOMAIN dataSource.blocksTransactions[b] :
           /\ Cardinality(EntriesOf(dataSource.blocksTransactions[b][k])) = 1
           /\ \A i \in EntriesOf(dataSource.blocksTransactions[b][k]) :
                  result.transactions[i].Block = b

\* the returned list is in non-decreasing block order, the transactions
\* of one block in the order of the filter's list
OrderedByBlockThenListing ==
    \A i, j \in DOMAIN result.transactions :
        i < j =>
            /\ result.transactions[i].Block <= result.transactions[j].Block
            /\ result.transactions[i].Block = result.transactions[j].Block
                   => ListedAt(result.transactions[i].Block, result.transactions[i].Hash)
                          < ListedAt(result.transactions[j].Block, result.transactions[j].Hash)

\* C30: when no data-source call fails, outboundTransactions returns one
\* entry per transaction hash of the block filter, in non-decreasing block
\* order and with the transactions of one block in the order the filter
\* listed them, whatever the order in which the block map was ranged over;
\* when a call fails it returns the error of the call and no list.
C30_TransactionsSortedByBlockKeepingListing ==
    phase = "done" =>
        IF dataSource.failing = {}
        THEN /\ result.err = Nil
             /\ OneEntryPerListedHash
             /\ OrderedByBlockThenListing
        ELSE /\ result.err # Nil
             /\ {result.err} = dataSource.failing
             /\ result.transactions = Nil

\* every block has two transactions, the map was ranged over from the
\* last block down, and no call failed
C30_Witness ==
    /\ phase = "done"
    /\ dataSource.failing = {}
    /\ Len(result.order) = MaxBlocks
    /\ \A i \in 1..(Len(result.order) - 1) : result.order[i] > result.order[i + 1]
    /\ \A b \in DOMAIN dataSource.blocksTransactions :
           Len(dataSource.blocksTransactions[b]) = 2
    /\ Len(result.transactions) = 2 * MaxBlocks
    /\ result.err = Nil

====
